---- MODULE Spec2Model ----
(***************************************************************************)
(* Model of the zimusyoku web console (web/console/src):                   *)
(*   - the Job Status Poller   (pages/JobDetail.tsx)                       *)
(*   - the Job List Refresher  (pages/Jobs.tsx)                            *)
(*   - the API client / auth events / App session (modules/apiClient.ts,   *)
(*     modules/authEvents.ts, modules/authClient.ts, App.tsx)              *)
(* Each component is an independent React view; each has its own           *)
(* specification (SpecDetail, SpecList, SpecAuth) over the shared          *)
(* variable list, the variables of the other components staying put.       *)
(*                                                                         *)
(* Time is abstracted: an armed interval may tick at any moment and a      *)
(* request in flight may resolve at any moment, which covers every         *)
(* latency the network can produce. A state update and the effects it      *)
(* triggers are one step: React commits the render and runs the effects    *)
(* before the next timer callback or response is handled.                  *)
(* Strings whose case matters (job statuses) are sequences of characters.  *)
(***************************************************************************)
EXTENDS Integers, Sequences, FiniteSets, TLC

VARIABLES
    \* ---- JobDetail.tsx (one component instance)
    id,             \* useParams().id : NoId or a job id
    job,            \* useState<JobDetail | null>
    loadState,      \* "loading" | "error" | "success"
    isPolling,      \* useState(true)
    interval,       \* the armed window.setInterval: NoTimer, or the id its loadJob closes over
    mounted,        \* the component is mounted and its effects have run
    requests,       \* fetchJobById calls in flight: [n, id]
    fetchCount,     \* number of fetchJobById calls issued so far
    idChanges,      \* number of route-parameter changes so far
    lastOp,         \* history: the last event of the detail view, [op, raw]
    autoStopped,    \* history: a load resolved with a terminal status, no resume or id change since
    undisturbed,    \* history: no user interaction, no failure, no tick with a request in flight
    nonTerminalSeen,\* history: number of responses with a non-terminal status so far
    \* ---- Jobs.tsx (one component instance)
    jobs,           \* useState<JobSummary[]>([])
    listLoadState,  \* "loading" | "success" | "empty" | "error"
    loadError,      \* string | null
    pollingError,   \* string | null
    lastUpdated,    \* 0 for null, k for the timestamp taken when the k-th response was applied
    listMounted,    \* the list view is mounted (its 15000 ms interval is armed)
    listRequests,   \* fetchJobs calls in flight: [n, withSpinner]
    listFetchCount, \* number of fetchJobs calls issued so far
    listLastOp,     \* history: the last event of the list view, [op, withSpinner, len]
    listUnauthorized,\* history: a scheduled fetch failed with a 401, no retry by the user since
    \* ---- apiClient.ts, authStorage.ts, authEvents.ts, App.tsx
    authToken,            \* apiClient: let authToken
    storage,              \* localStorage["zimusyoku.jwt"]
    token,                \* App: useState(() => initializeToken())
    authError,            \* App: useState<string | null>
    isAuthLoading,        \* App: useState(false)
    unauthorizedHandlers, \* authEvents: the Set of subscribed handlers, in insertion order
    appMounted,           \* App is mounted
    apiRequests,          \* HTTP requests in flight: [n, kind, authorization]
    apiCount,             \* number of HTTP requests issued so far
    authLastOp,           \* history: the last event of the session, [op, kind, status]
    \* ---- authClient.ts called directly (any call sequence)
    currentToken,         \* history: the token last set by initializeToken, login or
                          \* setAuthToken, Null after logout
    \* ---- authEvents.ts called directly (any call sequence)
    calls,                \* per handler, the number of times it has been invoked
    errorLog,             \* number of console.error calls made by notifyUnauthorized
    notifyOutcome,        \* how the last notifyUnauthorized call ended: returned or threw
    notifyCount,          \* number of notifyUnauthorized calls so far
    unsubscribers,        \* handlers for which subscribeToUnauthorized returned a function
    subscribed,           \* history: handlers subscribed and not unsubscribed since
    eventLastOp,          \* history: the last call, [op, handler]
    \* ---- Approvals.tsx (one component instance) and the approvals of the job store
    approvals,            \* useState<ApprovalRecord[]>: per job the status of its record
    approvalJobs,         \* useState<Record<string, JobSummary>>: the ids in the map
    statusFilter,         \* "pending" | "approved" | "rejected"
    isLoading,            \* useState(true)
    error,                \* string | null
    successMessage,       \* string | null
    notes,                \* useState<Record<string, string>>
    isSubmitting,         \* useState<Record<string, boolean>>
    approvalRequests,     \* calls in flight: [n, kind, jobId, note, snapshot]
    approvalCount,        \* number of calls issued so far
    serverApprovals,      \* the job store: per job the status of its approval record
    approvalsLastOp,      \* history: the last event of the view, [op, action, jobId, ok]
    \* ---- Jobs.tsx: the export, sync and payment buttons
    isExporting,          \* useState(false)
    exportError,          \* string | null
    isExportingInvoices,  \* useState(false)
    exportInvoicesError,  \* string | null
    isExportingJournal,   \* useState(false)
    exportJournalError,   \* string | null
    syncingTarget,        \* "freee" | "yayoi" | null
    syncMessage,          \* string | null
    syncError,            \* string | null
    paymentsLoading,      \* useState(false)
    paymentsMessage,      \* string | null
    paymentsError,        \* string | null
    actionRequests,       \* export / sync / payment calls in flight: [n, handler]
    actionCount,          \* number of such calls issued so far
    actionLastOp,         \* history: the last button event, [op, handler, ok]
    \* ---- Upload.tsx (one component instance)
    files,                \* useState<File[]>([]): [name, size]
    isUploading,          \* useState(false)
    statusMessage,        \* string | null: [key, current, total, jobId]
    uploadError,          \* error: string | null: [key, name]
    uploadedJobIds,       \* useState<string[]>([])
    pipelineStep,         \* useState<number>(0)
    currentFileIndex,     \* number | null
    createdJobs,          \* handleSubmit: const createdJobs
    uploadIndex,          \* handleSubmit: the loop variable index, NoIndex outside the loop
    uploadRequests,       \* registerJob calls in flight: [n, file]
    registerCount,        \* number of registerJob calls issued so far
    storeJobIds,          \* the job store: the ids of the jobs it has created
    storeJobFiles,        \* the job store: the files of those jobs, in order of creation
    submittedFiles,       \* history: the selection when the running handleSubmit started
    registerLog,          \* history: the files registerJob was called with since then
    returnedIds,          \* history: the ids those calls resolved with, in order
    uploadLastOp,         \* history: the last event of the view, [op, ok]
    \* ledger.ts
    ledgerRows,           \* the rows normalizeLedger is called with
    ledgerResult,         \* what the call did: [threw, rows], NotCalled before the call
    summaryRows,          \* the rows CurrencySummary.from is called with
    summaryTotals         \* CurrencySummary.totals in insertion order, NoSummary before

detailVars == <<id, job, loadState, isPolling, interval, mounted, requests,
                fetchCount, idChanges, lastOp, autoStopped, undisturbed,
                nonTerminalSeen>>

listVars == <<jobs, listLoadState, loadError, pollingError, lastUpdated, listMounted,
              listRequests, listFetchCount, listLastOp,
             listUnauthorized>>

authVars == <<authToken, storage, token, authError, isAuthLoading, unauthorizedHandlers,
              appMounted, apiRequests, apiCount, authLastOp>>

clientVars == <<currentToken>>

\* The variables of the components other than the three views above.
eventVars == <<calls, errorLog, notifyOutcome, notifyCount, unsubscribers, subscribed,
               eventLastOp>>

approvalVars == <<approvals, approvalJobs, statusFilter, isLoading, error, successMessage,
                  notes, isSubmitting, approvalRequests, approvalCount, serverApprovals,
                  approvalsLastOp>>

exportVars == <<isExporting, exportError>>
exportInvoicesVars == <<isExportingInvoices, exportInvoicesError>>
exportJournalVars == <<isExportingJournal, exportJournalError>>
syncVars == <<syncingTarget, syncMessage, syncError>>
paymentsVars == <<paymentsLoading, paymentsMessage, paymentsError>>

actionVars == <<exportVars, exportInvoicesVars, exportJournalVars, syncVars, paymentsVars,
                actionRequests, actionCount, actionLastOp>>

uploadVars == <<files, isUploading, statusMessage, uploadError, uploadedJobIds,
                pipelineStep, currentFileIndex, createdJobs, uploadIndex, uploadRequests,
                registerCount, storeJobIds, storeJobFiles, submittedFiles, registerLog,
                returnedIds, uploadLastOp>>

ledgerVars == <<ledgerRows, ledgerResult, summaryRows, summaryTotals>>

restVars == <<clientVars, eventVars, approvalVars, actionVars, uploadVars, ledgerVars>>

vars == <<detailVars, listVars, authVars, restVars>>

(***************************************************************************)
(* Bounds                                                                  *)
(***************************************************************************)
MaxFetches == 4
MaxIdChanges == 1
MaxListFetches == 3
MaxListLen == 2
MaxApiCalls == 3
MaxNotifies == 2
MaxApprovalCalls == 5
MaxUserActions == 2
MaxFiles == 2
MaxRegisterCalls == 4

(***************************************************************************)
(* Strings as character sequences, String.prototype.toLowerCase            *)
(***************************************************************************)
LowerCaseOf ==
    [A |-> "a", B |-> "b", C |-> "c", D |-> "d", E |-> "e", F |-> "f",
     G |-> "g", H |-> "h", I |-> "i", J |-> "j", K |-> "k", L |-> "l",
     M |-> "m", N |-> "n", O |-> "o", P |-> "p", Q |-> "q", R |-> "r",
     S |-> "s", T |-> "t", U |-> "u", V |-> "v", W |-> "w", X |-> "x",
     Y |-> "y", Z |-> "z"]

ToLowerCase(s) ==
    [i \in 1..Len(s) |-> IF s[i] \in DOMAIN LowerCaseOf THEN LowerCaseOf[s[i]] ELSE s[i]]

\* Statuses the remote job store may send (historical payloads used mixed case).
NoStatus == <<>>
ServerStatuses ==
    { NoStatus,
      <<"q","u","e","u","e","d">>,
      <<"Q","u","e","u","e","d">>,
      <<"R","U","N","N","I","N","G">>,
      <<"p","e","n","d","i","n","g">>,
      <<"o","k">>,
      <<"O","K">>,
      <<"F","a","i","l","e","d">>,
      <<"a","p","p","r","o","v","e","d">>,
      <<"R","e","j","e","c","t","e","d">> }

\* The literal ["ok", "failed", "approved", "rejected"] of JobDetail.tsx.
FinalStatusList ==
    { <<"o","k">>,
      <<"f","a","i","l","e","d">>,
      <<"a","p","p","r","o","v","e","d">>,
      <<"r","e","j","e","c","t","e","d">> }

\* A final-status list that forgets "rejected".
IsFinalStatus_NoRejected(status) ==
    ToLowerCase(status) \in FinalStatusList \ { <<"r","e","j","e","c","t","e","d">> }

\* [...].includes(status.toLowerCase())
IsFinalStatus(status) == ToLowerCase(status) \in FinalStatusList

\* The terminal statuses of the data model: ok, failed, approved, rejected, whatever
\* the casing of the payload.
TerminalStatuses ==
    { <<"o","k">>,
      <<"f","a","i","l","e","d">>,
      <<"a","p","p","r","o","v","e","d">>,
      <<"r","e","j","e","c","t","e","d">> }

IsTerminalStatus(raw) == ToLowerCase(raw) \in TerminalStatuses

\* jobsApi.normalizeJob: status defaults to "queued" and is lower-cased.
NormalizeStatus(raw) ==
    IF raw = NoStatus THEN <<"q","u","e","u","e","d">> ELSE ToLowerCase(raw)

(***************************************************************************)
(* Remote job store (external): which ids exist                            *)
(***************************************************************************)
NoId == "(none)"
NoJob == [id |-> NoId, status |-> NoStatus]
NoTimer == "(cleared)"
ExistingIds == {"JOB-1", "JOB-2"}
MissingIds == {"missing"}
RouteIds == ExistingIds \cup MissingIds

\* fetchJobById(id) resolving with a server payload
FetchedJob(theId, raw) == [id |-> theId, status |-> NormalizeStatus(raw)]

(***************************************************************************)
(* JobDetail.tsx                                                           *)
(***************************************************************************)
\* useEffect(..., [isPolling, job, loadJob]): the interval that is armed once the
\* effect (cleanup of the previous run included) has run for these values.
pollingEffect(polling, j, theId) ==
    IF ~polling THEN NoTimer
    ELSE IF j = NoJob \/ IsFinalStatus(j.status) THEN NoTimer
    ELSE theId

\* loadJob that does not check for a missing id.
loadJob_NoIdGuard(theId) ==
    /\ fetchCount < MaxFetches
    /\ requests' = requests \cup {[n |-> fetchCount + 1, id |-> theId]}
    /\ fetchCount' = fetchCount + 1
    /\ UNCHANGED loadState

\* loadJob up to its await: without an id it sets the error state and returns,
\* otherwise fetchJobById(id) is issued.
loadJob(theId) ==
    IF theId = NoId
       THEN /\ loadState' = "error"
            /\ UNCHANGED <<requests, fetchCount>>
       ELSE /\ fetchCount < MaxFetches
            /\ requests' = requests \cup {[n |-> fetchCount + 1, id |-> theId]}
            /\ fetchCount' = fetchCount + 1
            /\ UNCHANGED loadState

\* loadJob whose success branch forgets setIsPolling(false).
loadJobResolved_NoAutoStop(r, result) ==
    /\ requests' = requests \ {r}
    /\ job' = result
    /\ loadState' = "success"
    /\ isPolling' = isPolling
    /\ interval' = pollingEffect(isPolling', job', id)

\* loadJob after the await, try branch: setJob, setLoadState("success") and the
\* auto-stop; the polling effect re-runs because job is a new object.
loadJobResolved(r, result) ==
    /\ requests' = requests \ {r}
    /\ job' = result
    /\ loadState' = "success"
    /\ isPolling' = IF IsFinalStatus(result.status) THEN FALSE ELSE isPolling
    /\ interval' = pollingEffect(isPolling', job', id)

\* A catch branch that also stops the polling.
loadJobRejected_StopsPolling(r) ==
    /\ requests' = requests \ {r}
    /\ loadState' = "error"
    /\ isPolling' = FALSE
    /\ interval' = NoTimer
    /\ UNCHANGED job

\* loadJob after the await, catch branch: setLoadState("error"). job and isPolling
\* are not touched, so the polling effect does not re-run and the interval stays.
loadJobRejected(r) ==
    /\ requests' = requests \ {r}
    /\ loadState' = "error"
    /\ UNCHANGED <<job, isPolling, interval>>

\* The toggle button is rendered only in the success presentation (loadState is
\* neither "loading" nor "error", job is set) and is disabled on a final status.
ToggleEnabled ==
    /\ loadState = "success"
    /\ job # NoJob
    /\ ~IsFinalStatus(job.status)

\* togglePolling whose resume branch waits for the next tick of the interval.
togglePolling_NoImmediateLoad ==
    /\ isPolling' = ~isPolling
    /\ UNCHANGED <<requests, fetchCount, loadState>>
    /\ interval' = pollingEffect(isPolling', job, id)

\* togglePolling
togglePolling ==
    /\ IF isPolling
          THEN /\ isPolling' = FALSE
               /\ UNCHANGED <<requests, fetchCount, loadState>>
          ELSE /\ isPolling' = TRUE
               /\ loadJob(id)
    /\ interval' = pollingEffect(isPolling', job, id)

Op(name) == [op |-> name, raw |-> NoStatus]

\* The detail view does not touch the other views.
DetailOnly == UNCHANGED <<listVars, authVars, restVars>>

\* The component mounts: the load effect calls loadJob, the polling effect runs.
Mount ==
    /\ DetailOnly
    /\ ~mounted
    /\ lastOp = Op("init")
    /\ mounted' = TRUE
    /\ loadJob(id)
    /\ interval' = pollingEffect(isPolling, job, id)
    /\ lastOp' = Op("mount")
    /\ UNCHANGED <<id, job, isPolling, idChanges, autoStopped, undisturbed, nonTerminalSeen>>

\* The interval callback fires: void loadJob()
Tick ==
    /\ DetailOnly
    /\ mounted
    /\ interval # NoTimer
    /\ loadJob(interval)
    /\ lastOp' = Op("tick")
    /\ undisturbed' = (undisturbed /\ requests = {})
    /\ UNCHANGED <<id, job, isPolling, interval, mounted, idChanges,
                   autoStopped, nonTerminalSeen>>

\* The job store answers a request with a job payload (only ids that exist).
ResolveFetch ==
    \E r \in requests, raw \in ServerStatuses :
        /\ DetailOnly
        /\ mounted
        /\ r.id \in ExistingIds
        /\ loadJobResolved(r, FetchedJob(r.id, raw))
        /\ lastOp' = [op |-> "resolved", raw |-> raw]
        /\ autoStopped' = (autoStopped \/ IsTerminalStatus(raw))
        /\ nonTerminalSeen' = nonTerminalSeen + (IF IsTerminalStatus(raw) THEN 0 ELSE 1)
        /\ UNCHANGED <<id, mounted, fetchCount, idChanges, undisturbed>>

\* The request fails: 404 for an unknown id, a network error, a 401 or a 5xx.
RejectFetch ==
    \E r \in requests :
        /\ DetailOnly
        /\ mounted
        /\ loadJobRejected(r)
        /\ lastOp' = Op("rejected")
        /\ undisturbed' = FALSE
        /\ UNCHANGED <<id, mounted, fetchCount, idChanges, autoStopped, nonTerminalSeen>>

\* A response reaches a component that was unmounted: React drops the updates.
LateResponse ==
    \E r \in requests :
        /\ DetailOnly
        /\ ~mounted
        /\ lastOp # Op("init")
        /\ requests' = requests \ {r}
        /\ lastOp' = Op("dropped")
        /\ UNCHANGED <<id, job, loadState, isPolling, interval, mounted, fetchCount,
                       idChanges, autoStopped, undisturbed, nonTerminalSeen>>

\* The user clicks the stop/resume button.
ClickToggle ==
    /\ DetailOnly
    /\ mounted
    /\ ToggleEnabled
    /\ togglePolling
    /\ lastOp' = Op("togglePolling")
    /\ autoStopped' = (IF isPolling THEN autoStopped ELSE FALSE)
    /\ undisturbed' = FALSE
    /\ UNCHANGED <<id, job, mounted, idChanges, nonTerminalSeen>>

\* A change of the route parameter that leaves the armed interval as it is.
ChangeId_KeepsTimer ==
    \E newId \in RouteIds :
        /\ DetailOnly
        /\ mounted
        /\ id # NoId
        /\ newId # id
        /\ idChanges < MaxIdChanges
        /\ id' = newId
        /\ idChanges' = idChanges + 1
        /\ loadJob(newId)
        /\ interval' = interval
        /\ lastOp' = Op("changeId")
        /\ autoStopped' = FALSE
        /\ undisturbed' = FALSE
        /\ UNCHANGED <<job, isPolling, mounted, nonTerminalSeen>>

\* The route parameter changes under the same <Route>: the component instance and
\* its state are kept, loadJob is re-created for the new id, both effects re-run.
ChangeId ==
    \E newId \in RouteIds :
        /\ DetailOnly
        /\ mounted
        /\ id # NoId
        /\ newId # id
        /\ idChanges < MaxIdChanges
        /\ id' = newId
        /\ idChanges' = idChanges + 1
        /\ loadJob(newId)
        /\ interval' = pollingEffect(isPolling, job, newId)
        /\ lastOp' = Op("changeId")
        /\ autoStopped' = FALSE
        /\ undisturbed' = FALSE
        /\ UNCHANGED <<job, isPolling, mounted, nonTerminalSeen>>

\* Teardown: the cleanup of the polling effect clears the interval.
Unmount ==
    /\ DetailOnly
    /\ mounted
    /\ mounted' = FALSE
    /\ interval' = NoTimer
    /\ lastOp' = Op("unmount")
    /\ undisturbed' = FALSE
    /\ UNCHANGED <<id, job, loadState, isPolling, requests, fetchCount, idChanges,
                   autoStopped, nonTerminalSeen>>

InitDetail ==
    /\ id \in RouteIds \cup {NoId}
    /\ job = NoJob
    /\ loadState = "loading"
    /\ isPolling = TRUE
    /\ interval = NoTimer
    /\ mounted = FALSE
    /\ requests = {}
    /\ fetchCount = 0
    /\ idChanges = 0
    /\ lastOp = Op("init")
    /\ autoStopped = FALSE
    /\ undisturbed = TRUE
    /\ nonTerminalSeen = 0

NextDetail ==
    \/ Mount
    \/ Tick
    \/ ResolveFetch
    \/ RejectFetch
    \/ LateResponse
    \/ ClickToggle
    \/ ChangeId
    \/ Unmount

(***************************************************************************)
(* Jobs.tsx                                                                *)
(***************************************************************************)
Null == "(null)"
StringsJobsError == "strings.jobs.error"
StringsJobsPollError == "strings.jobs.pollError"

\* The payloads fetchJobs may resolve with: lists of up to MaxListLen job summaries.
JobLists == UNION {[1..k -> ExistingIds] : k \in 0..MaxListLen}

\* refreshJobs whose spinner reset leaves the previous load error in place.
refreshJobs_KeepsLoadError(withSpinner) ==
    /\ listFetchCount < MaxListFetches
    /\ IF withSpinner
          THEN /\ listLoadState' = "loading"
               /\ UNCHANGED loadError
          ELSE UNCHANGED <<listLoadState, loadError>>
    /\ listRequests' = listRequests \cup {[n |-> listFetchCount + 1, withSpinner |-> withSpinner]}
    /\ listFetchCount' = listFetchCount + 1
    /\ UNCHANGED <<jobs, pollingError, lastUpdated>>

\* refreshJobs up to its await: the spinner reset, then fetchJobs() is issued.
refreshJobs(withSpinner) ==
    /\ listFetchCount < MaxListFetches
    /\ IF withSpinner
          THEN /\ listLoadState' = "loading"
               /\ loadError' = Null
          ELSE UNCHANGED <<listLoadState, loadError>>
    /\ listRequests' = listRequests \cup {[n |-> listFetchCount + 1, withSpinner |-> withSpinner]}
    /\ listFetchCount' = listFetchCount + 1
    /\ UNCHANGED <<jobs, pollingError, lastUpdated>>

\* refreshJobs that treats a list of one job as empty.
refreshJobsResolved_OffByOne(r, data) ==
    /\ listRequests' = listRequests \ {r}
    /\ jobs' = data
    /\ listLoadState' = IF Len(data) > 1 THEN "success" ELSE "empty"
    /\ lastUpdated' = lastUpdated + 1
    /\ pollingError' = Null
    /\ UNCHANGED loadError

\* refreshJobs whose try branch sets loadState only for refresh(true).
refreshJobsResolved_SpinnerOnly(r, data) ==
    /\ listRequests' = listRequests \ {r}
    /\ jobs' = data
    /\ listLoadState' = IF r.withSpinner
                           THEN (IF Len(data) > 0 THEN "success" ELSE "empty")
                           ELSE listLoadState
    /\ lastUpdated' = lastUpdated + 1
    /\ pollingError' = Null
    /\ UNCHANGED loadError

\* refreshJobs after the await, try branch.
refreshJobsResolved(r, data) ==
    /\ listRequests' = listRequests \ {r}
    /\ jobs' = data
    /\ listLoadState' = IF Len(data) > 0 THEN "success" ELSE "empty"
    /\ lastUpdated' = lastUpdated + 1
    /\ pollingError' = Null
    /\ UNCHANGED loadError

\* refreshJobs whose catch branch ignores withSpinner and always reports a load error.
refreshJobsRejected_AlwaysLoadError(r) ==
    /\ listRequests' = listRequests \ {r}
    /\ loadError' = StringsJobsError
    /\ listLoadState' = "error"
    /\ UNCHANGED <<jobs, lastUpdated, pollingError>>

\* refreshJobs whose catch branch ignores withSpinner and always reports a poll error.
refreshJobsRejected_AlwaysPollError(r) ==
    /\ listRequests' = listRequests \ {r}
    /\ pollingError' = StringsJobsPollError
    /\ UNCHANGED <<jobs, lastUpdated, listLoadState, loadError>>

\* refreshJobs after the await, catch branch.
refreshJobsRejected(r) ==
    /\ listRequests' = listRequests \ {r}
    /\ IF r.withSpinner
          THEN /\ loadError' = StringsJobsError
               /\ listLoadState' = "error"
               /\ UNCHANGED pollingError
          ELSE /\ pollingError' = StringsJobsPollError
               /\ UNCHANGED <<listLoadState, loadError>>
    /\ UNCHANGED <<jobs, lastUpdated>>

\* How a fetchJobs call may fail: 0 stands for a network failure (fetch throws), 401
\* becomes UnauthorizedError and the other statuses ApiError in apiRequest.
FailureStatuses == {0, 401, 404, 500}

ListOp(name, withSpinner, len) == [op |-> name, withSpinner |-> withSpinner, len |-> len]

\* The list view does not touch the other views.
ListOnly == UNCHANGED <<detailVars, authVars, restVars>>

\* The list view mounts: refreshJobs(true), and the 15000 ms interval is armed.
ListMount ==
    /\ ListOnly
    /\ ~listMounted
    /\ listLastOp = ListOp("init", FALSE, 0)
    /\ listMounted' = TRUE
    /\ refreshJobs(TRUE)
    /\ listLastOp' = ListOp("mount", TRUE, 0)
    /\ UNCHANGED listUnauthorized

\* The interval callback fires: void refreshJobs(false)
ListTick ==
    /\ ListOnly
    /\ listMounted
    /\ refreshJobs(FALSE)
    /\ listLastOp' = ListOp("tick", FALSE, 0)
    /\ UNCHANGED <<listMounted, listUnauthorized>>

\* The retry button of the poll-error banner or the reload button of the error
\* banner: onClick={() => refreshJobs(true)}
ClickRetry ==
    /\ ListOnly
    /\ listMounted
    /\ pollingError # Null \/ listLoadState = "error"
    /\ refreshJobs(TRUE)
    /\ listLastOp' = ListOp("retry", TRUE, 0)
    /\ listUnauthorized' = FALSE
    /\ UNCHANGED listMounted

\* fetchJobs resolves with a list.
ListResolve ==
    \E r \in listRequests, data \in JobLists :
        /\ ListOnly
        /\ listMounted
        /\ refreshJobsResolved(r, data)
        /\ listLastOp' = ListOp("resolved", r.withSpinner, Len(data))
        /\ UNCHANGED <<listMounted, listFetchCount, listUnauthorized>>

\* fetchJobs rejects (network failure, 401, 4xx, 5xx).
ListReject ==
    \E r \in listRequests, status \in FailureStatuses :
        /\ ListOnly
        /\ listMounted
        /\ refreshJobsRejected(r)
        /\ listLastOp' = ListOp("rejected", r.withSpinner, 0)
        /\ listUnauthorized' = (listUnauthorized \/ (status = 401 /\ ~r.withSpinner))
        /\ UNCHANGED <<listMounted, listFetchCount>>

\* Teardown: the cleanup of the interval effect clears the interval.
ListUnmount ==
    /\ ListOnly
    /\ listMounted
    /\ listMounted' = FALSE
    /\ listLastOp' = ListOp("unmount", FALSE, 0)
    /\ UNCHANGED <<jobs, listLoadState, loadError, pollingError, lastUpdated,
                   listRequests, listFetchCount, listUnauthorized>>

\* A response reaches the unmounted list view: React drops the updates.
ListLateResponse ==
    \E r \in listRequests :
        /\ ListOnly
        /\ ~listMounted
        /\ listLastOp # ListOp("init", FALSE, 0)
        /\ listRequests' = listRequests \ {r}
        /\ listLastOp' = ListOp("dropped", r.withSpinner, 0)
        /\ UNCHANGED <<jobs, listLoadState, loadError, pollingError, lastUpdated,
                       listMounted, listFetchCount, listUnauthorized>>

InitList ==
    /\ jobs = <<>>
    /\ listLoadState = "loading"
    /\ loadError = Null
    /\ pollingError = Null
    /\ lastUpdated = 0
    /\ listMounted = FALSE
    /\ listRequests = {}
    /\ listFetchCount = 0
    /\ listLastOp = ListOp("init", FALSE, 0)
    /\ listUnauthorized = FALSE

NextList ==
    \/ ListMount
    \/ ListTick
    \/ ClickRetry
    \/ ListResolve
    \/ ListReject
    \/ ListUnmount
    \/ ListLateResponse

(***************************************************************************)
(* apiClient.ts, authStorage.ts, authClient.ts, authEvents.ts, App.tsx     *)
(***************************************************************************)
StringsAuthSessionExpired == "strings.auth.sessionExpired"
StringsAuthInvalid == "strings.auth.invalid"
StringsAuthInvalidWithDetail == "strings.auth.invalid (detail)"

Tokens == {"jwt-1", "jwt-2"}
AppHandler == "App.onUnauthorized"

\* What the backend may answer: 0 stands for a network failure (fetch throws).
ResponseStatuses == {0, 200, 401, 404, 500}

NoHeader == [scheme |-> "(none)", token |-> Null]
Bearer(t) == [scheme |-> "Bearer", token |-> t]

\* apiRequest: the Authorization header of the request it sends.
apiRequestAuthorization(skipAuth) ==
    IF ~skipAuth /\ authToken # Null THEN Bearer(authToken) ELSE NoHeader

\* downloadFile: the Authorization header of the request it sends.
downloadFileAuthorization ==
    IF authToken # Null THEN Bearer(authToken) ELSE NoHeader

\* The members of a Set kept in insertion order.
Handlers(set) == {set[i] : i \in DOMAIN set}

\* authEvents.subscribeToUnauthorized: Set.add appends a handler that is not a member.
subscribeToUnauthorized(handler) ==
    unauthorizedHandlers' = IF handler \in Handlers(unauthorizedHandlers)
                               THEN unauthorizedHandlers
                               ELSE Append(unauthorizedHandlers, handler)

\* apiClient.setAuthToken
setAuthToken(t) == authToken' = t

\* authClient.initializeToken: the stored token, if there is one, becomes the token
\* of the API client.
initializeToken ==
    /\ IF storage # Null THEN setAuthToken(storage) ELSE UNCHANGED authToken
    /\ UNCHANGED storage

\* fetch(url, {headers}) is issued.
SendRequest(kind, authorization) ==
    /\ apiCount < MaxApiCalls
    /\ apiRequests' = apiRequests \cup
          {[n |-> apiCount + 1, kind |-> kind, authorization |-> authorization]}
    /\ apiCount' = apiCount + 1

\* apiRequest / downloadFile after the await: a 401 throws UnauthorizedError, any
\* other non-2xx throws ApiError, a 2xx returns the payload. The caller catches the
\* error; nothing of the session is changed and no handler is called.
requestSettled(r, status) ==
    /\ apiRequests' = apiRequests \ {r}
    /\ UNCHANGED <<authToken, storage, token, authError, isAuthLoading, unauthorizedHandlers>>

\* authClient.login after the await plus App.handleLogin: on success setAuthToken,
\* saveToken, setToken, setAuthError(null); on failure the message by error class;
\* finally setIsAuthLoading(false).
loginSettled(r, status, issued) ==
    /\ apiRequests' = apiRequests \ {r}
    /\ isAuthLoading' = FALSE
    /\ IF status = 200
          THEN /\ authToken' = issued
               /\ storage' = issued
               /\ token' = issued
               /\ authError' = Null
          ELSE /\ authError' = IF status = 401 THEN StringsAuthInvalid
                               ELSE StringsAuthInvalidWithDetail
               /\ UNCHANGED <<authToken, storage, token>>
    /\ UNCHANGED unauthorizedHandlers

\* authClient.logout that clears the stored token but not the one in memory.
logout_KeepsAuthToken ==
    /\ storage' = Null
    /\ UNCHANGED authToken

\* authClient.logout: clearToken(); setAuthToken(null)
logout ==
    /\ storage' = Null
    /\ authToken' = Null

\* App.handleLogout: performLogout(); setToken(null); setAuthError(null)
handleLogout ==
    /\ logout
    /\ token' = Null
    /\ authError' = Null

AuthOp(name, kind, status) == [op |-> name, kind |-> kind, status |-> status]

\* The session does not touch the views.
AuthOnly == UNCHANGED <<detailVars, listVars, restVars>>

\* App mounts: useState(() => initializeToken()), then the effect subscribes the
\* unauthorized handler.
AppMount ==
    /\ AuthOnly
    /\ ~appMounted
    /\ appMounted' = TRUE
    /\ token' = storage
    /\ initializeToken
    /\ subscribeToUnauthorized(AppHandler)
    /\ authLastOp' = AuthOp("mount", "", 0)
    /\ UNCHANGED <<authError, isAuthLoading, apiRequests, apiCount>>

\* The login form is submitted (rendered only without a token, disabled while loading).
SubmitLogin ==
    /\ AuthOnly
    /\ appMounted
    /\ token = Null
    /\ ~isAuthLoading
    /\ isAuthLoading' = TRUE
    /\ SendRequest("login", apiRequestAuthorization(TRUE))
    /\ authLastOp' = AuthOp("login", "login", 0)
    /\ UNCHANGED <<authToken, storage, token, authError, unauthorizedHandlers, appMounted>>

\* A page issues a request through apiRequest (pages are rendered only with a token).
PageApiRequest ==
    /\ AuthOnly
    /\ appMounted
    /\ token # Null
    /\ SendRequest("api", apiRequestAuthorization(FALSE))
    /\ authLastOp' = AuthOp("request", "api", 0)
    /\ UNCHANGED <<authToken, storage, token, authError, isAuthLoading,
                   unauthorizedHandlers, appMounted>>

\* A page issues an export through downloadFile.
PageDownload ==
    /\ AuthOnly
    /\ appMounted
    /\ token # Null
    /\ SendRequest("download", downloadFileAuthorization)
    /\ authLastOp' = AuthOp("request", "download", 0)
    /\ UNCHANGED <<authToken, storage, token, authError, isAuthLoading,
                   unauthorizedHandlers, appMounted>>

\* The backend answers a page request.
PageResponse ==
    \E r \in apiRequests, status \in ResponseStatuses :
        /\ AuthOnly
        /\ r.kind # "login"
        /\ requestSettled(r, status)
        /\ authLastOp' = AuthOp("response", r.kind, status)
        /\ UNCHANGED <<appMounted, apiCount>>

\* The backend answers the login request.
LoginResponse ==
    \E r \in apiRequests, status \in ResponseStatuses, issued \in Tokens :
        /\ AuthOnly
        /\ r.kind = "login"
        /\ loginSettled(r, status, issued)
        /\ authLastOp' = AuthOp("response", r.kind, status)
        /\ UNCHANGED <<appMounted, apiCount>>

\* The logout button (rendered only with a token).
ClickLogout ==
    /\ AuthOnly
    /\ appMounted
    /\ token # Null
    /\ handleLogout
    /\ authLastOp' = AuthOp("logout", "", 0)
    /\ UNCHANGED <<isAuthLoading, unauthorizedHandlers, appMounted, apiRequests, apiCount>>

InitAuth ==
    /\ authToken = Null
    /\ storage \in Tokens \cup {Null}
    /\ token = Null
    /\ authError = Null
    /\ isAuthLoading = FALSE
    /\ unauthorizedHandlers = <<>>
    /\ appMounted = FALSE
    /\ apiRequests = {}
    /\ apiCount = 0
    /\ authLastOp = AuthOp("init", "", 0)
    /\ currentToken = Null

NextAuth ==
    \/ AppMount
    \/ SubmitLogin
    \/ PageApiRequest
    \/ PageDownload
    \/ PageResponse
    \/ LoginResponse
    \/ ClickLogout

(***************************************************************************)
(* authClient.ts and apiClient.ts called directly, in any order            *)
(***************************************************************************)
\* Direct calls touch the client and the storage only.
ClientOnly ==
    UNCHANGED <<detailVars, listVars, eventVars, approvalVars, actionVars, uploadVars, ledgerVars,
                token, authError,
                isAuthLoading, unauthorizedHandlers, appMounted>>

CallInitializeToken ==
    /\ ClientOnly
    /\ initializeToken
    /\ currentToken' = IF storage # Null THEN storage ELSE currentToken
    /\ authLastOp' = AuthOp("initializeToken", "", 0)
    /\ UNCHANGED <<apiRequests, apiCount>>

CallSetAuthToken ==
    \E t \in Tokens \cup {Null} :
        /\ ClientOnly
        /\ setAuthToken(t)
        /\ currentToken' = t
        /\ authLastOp' = AuthOp("setAuthToken", "", 0)
        /\ UNCHANGED <<storage, apiRequests, apiCount>>

\* authClient.login up to its await: apiRequest("/api/auth/token", {skipAuth: true})
CallLogin ==
    /\ ClientOnly
    /\ SendRequest("login", apiRequestAuthorization(TRUE))
    /\ authLastOp' = AuthOp("login", "login", 0)
    /\ UNCHANGED <<authToken, storage, currentToken>>

\* authClient.login after the await: setAuthToken(access_token); saveToken(access_token)
LoginResolved ==
    \E r \in apiRequests, issued \in Tokens :
        /\ ClientOnly
        /\ r.kind = "login"
        /\ apiRequests' = apiRequests \ {r}
        /\ setAuthToken(issued)
        /\ storage' = issued
        /\ currentToken' = issued
        /\ authLastOp' = AuthOp("response", "login", 200)
        /\ UNCHANGED apiCount

CallLogout ==
    /\ ClientOnly
    /\ logout
    /\ currentToken' = Null
    /\ authLastOp' = AuthOp("logout", "", 0)
    /\ UNCHANGED <<apiRequests, apiCount>>

CallApiRequest ==
    /\ ClientOnly
    /\ SendRequest("api", apiRequestAuthorization(FALSE))
    /\ authLastOp' = AuthOp("request", "api", 0)
    /\ UNCHANGED <<authToken, storage, currentToken>>

CallDownloadFile ==
    /\ ClientOnly
    /\ SendRequest("download", downloadFileAuthorization)
    /\ authLastOp' = AuthOp("request", "download", 0)
    /\ UNCHANGED <<authToken, storage, currentToken>>

\* A request other than a successful login settles: the caller gets the payload or
\* the error, the client keeps its token.
RequestSettled ==
    \E r \in apiRequests, status \in ResponseStatuses :
        /\ ClientOnly
        /\ r.kind = "login" => status # 200
        /\ requestSettled(r, status)
        /\ authLastOp' = AuthOp("response", r.kind, status)
        /\ UNCHANGED <<apiCount, currentToken>>

NextClient ==
    \/ CallInitializeToken
    \/ CallSetAuthToken
    \/ CallLogin
    \/ LoginResolved
    \/ CallLogout
    \/ CallApiRequest
    \/ CallDownloadFile
    \/ RequestSettled

(***************************************************************************)
(* authEvents.ts called directly, in any order                             *)
(***************************************************************************)
\* The handlers a caller may subscribe: two that return and one that throws.
EventHandlers == {"handler", "succeeding", "failing"}
Throws(handler) == handler = "failing"

\* An unsubscribe function that forgets to delete the handler.
unsubscribe_KeepsHandler(handler) == UNCHANGED unauthorizedHandlers

\* The function returned by subscribeToUnauthorized: Set.delete(handler)
unsubscribe(handler) ==
    unauthorizedHandlers' = SelectSeq(unauthorizedHandlers, LAMBDA h : h # handler)

\* The state of one notifyUnauthorized call while it walks the Set.
NotifyStart == [calls |-> calls, errorLog |-> errorLog, outcome |-> "returned"]

\* notifyUnauthorized without the try/catch: the first throwing handler ends the call.
RECURSIVE notifyUnauthorized_NoCatch(_, _)
notifyUnauthorized_NoCatch(i, st) ==
    IF i > Len(unauthorizedHandlers) THEN st
    ELSE LET handler == unauthorizedHandlers[i]
             invoked == [st EXCEPT !.calls[handler] = @ + 1]
         IN  IF Throws(handler)
                THEN [invoked EXCEPT !.outcome = "threw"]
                ELSE notifyUnauthorized_NoCatch(i + 1, invoked)

\* notifyUnauthorized from the i-th member on: each handler is called inside a try
\* whose catch logs the error.
RECURSIVE notifyUnauthorized(_, _)
notifyUnauthorized(i, st) ==
    IF i > Len(unauthorizedHandlers) THEN st
    ELSE LET handler == unauthorizedHandlers[i]
             invoked == [st EXCEPT !.calls[handler] = @ + 1]
         IN  IF Throws(handler)
                THEN notifyUnauthorized(i + 1, [invoked EXCEPT !.errorLog = @ + 1])
                ELSE notifyUnauthorized(i + 1, invoked)

EventOp(name, handler) == [op |-> name, handler |-> handler]

\* Direct calls touch the Set of handlers only.
EventsOnly ==
    UNCHANGED <<detailVars, listVars, clientVars, approvalVars, actionVars, uploadVars, ledgerVars,
                authToken, storage, token,
                authError, isAuthLoading, appMounted, apiRequests, apiCount, authLastOp>>

CallSubscribe ==
    \E handler \in EventHandlers :
        /\ EventsOnly
        /\ subscribeToUnauthorized(handler)
        /\ unsubscribers' = unsubscribers \cup {handler}
        /\ subscribed' = subscribed \cup {handler}
        /\ eventLastOp' = EventOp("subscribe", handler)
        /\ UNCHANGED <<calls, errorLog, notifyOutcome, notifyCount>>

CallUnsubscribe ==
    \E handler \in unsubscribers :
        /\ EventsOnly
        /\ unsubscribe(handler)
        /\ subscribed' = subscribed \ {handler}
        /\ eventLastOp' = EventOp("unsubscribe", handler)
        /\ UNCHANGED <<calls, errorLog, notifyOutcome, notifyCount, unsubscribers>>

CallNotify ==
    /\ EventsOnly
    /\ notifyCount < MaxNotifies
    /\ LET end == notifyUnauthorized(1, NotifyStart)
       IN  /\ calls' = end.calls
           /\ errorLog' = end.errorLog
           /\ notifyOutcome' = end.outcome
    /\ notifyCount' = notifyCount + 1
    /\ eventLastOp' = EventOp("notify", "")
    /\ UNCHANGED <<unauthorizedHandlers, unsubscribers, subscribed>>

InitEvents ==
    /\ calls = [h \in EventHandlers |-> 0]
    /\ errorLog = 0
    /\ notifyOutcome = "(none)"
    /\ notifyCount = 0
    /\ unsubscribers = {}
    /\ subscribed = {}
    /\ eventLastOp = EventOp("init", "")

NextEvents ==
    \/ CallSubscribe
    \/ CallUnsubscribe
    \/ CallNotify

(***************************************************************************)
(* Approvals.tsx                                                           *)
(***************************************************************************)
StringsSummaryOffline == "strings.summary.offline"
StringsSummaryError == "strings.summary.error"
StringsApprovalsActionError == "strings.approvals.actionError"
StringsApprovalsApproveSuccess == "strings.approvals.approveSuccess"
StringsApprovalsRejectSuccess == "strings.approvals.rejectSuccess"

ApprovalIds == {"JOB-9", "JOB-8"}
ApprovalTabs == {"pending", "approved", "rejected"}
NoteTexts == {"", "note"}
NoJobId == "(none)"

\* How a call may fail, as the catch blocks tell the errors apart: a NetworkError,
\* an ApiError with status >= 500, anything else (4xx, 401).
ErrorClasses == {"NetworkError", "ApiError5xx", "other"}

\* approvals = []: no job has a record in the list.
NoRecords == [j \in ApprovalIds |-> "(none)"]
\* The payload of a load the job store has not answered yet.
Unread == [j \in ApprovalIds |-> "(unread)"]

\* useMemo: the records shown under the selected tab.
filteredApprovals == {j \in ApprovalIds : approvals[j] = statusFilter}

ApprovalCall(kind, action, jobId, note) ==
    [n |-> approvalCount + 1, kind |-> kind, action |-> action, jobId |-> jobId,
     note |-> note, snapshot |-> Unread]

\* load up to its await: Promise.all([fetchApprovals(), fetchJobs()]) is issued on
\* behalf of the mount effect or of a handler; inFlight are the other calls in flight.
load(inFlight, action, jobId) ==
    /\ approvalCount < MaxApprovalCalls
    /\ isLoading' = TRUE
    /\ error' = Null
    /\ approvalRequests' = inFlight \cup {ApprovalCall("load", action, jobId, "")}
    /\ approvalCount' = approvalCount + 1

\* The finally block of the handler that awaited the load, if one did.
handlerSettled(r) ==
    isSubmitting' = IF r.action = "mount" THEN isSubmitting
                    ELSE [isSubmitting EXCEPT ![r.jobId] = FALSE]

\* load that stores the approval records only when the mount effect called it.
loadResolved_MountOnly(r) ==
    /\ approvalRequests' = approvalRequests \ {r}
    /\ approvalJobs' = ApprovalIds
    /\ approvals' = IF r.action = "mount" THEN r.snapshot ELSE approvals
    /\ isLoading' = FALSE
    /\ handlerSettled(r)
    /\ UNCHANGED <<error, successMessage, notes, statusFilter, approvalCount>>

\* load after the await, try branch, then the handler awaiting it.
loadResolved(r) ==
    /\ approvalRequests' = approvalRequests \ {r}
    /\ approvalJobs' = ApprovalIds
    /\ approvals' = r.snapshot
    /\ isLoading' = FALSE
    /\ handlerSettled(r)
    /\ UNCHANGED <<error, successMessage, notes, statusFilter, approvalCount>>

\* load after the await, catch branch, then the handler awaiting it: load does not
\* rethrow, so the catch of the handler is not entered.
loadRejected(r, class) ==
    /\ approvalRequests' = approvalRequests \ {r}
    /\ error' = CASE class = "NetworkError" -> StringsSummaryOffline
                  [] class = "ApiError5xx" -> StringsSummaryError
                  [] OTHER -> StringsApprovalsActionError
    /\ isLoading' = FALSE
    /\ handlerSettled(r)
    /\ UNCHANGED <<approvals, approvalJobs, successMessage, notes, statusFilter,
                   approvalCount>>

\* handleApprove up to its await: approveJob(jobId, note) is issued.
handleApprove(jobId) ==
    /\ approvalCount + 1 < MaxApprovalCalls
    /\ isSubmitting' = [isSubmitting EXCEPT ![jobId] = TRUE]
    /\ successMessage' = Null
    /\ approvalRequests' = approvalRequests \cup
          {ApprovalCall("approve", "approve", jobId, notes[jobId])}
    /\ approvalCount' = approvalCount + 1
    /\ UNCHANGED <<approvals, approvalJobs, statusFilter, isLoading, error, notes>>

\* handleReject up to its await: rejectJob(jobId, note) is issued.
handleReject(jobId) ==
    /\ approvalCount + 1 < MaxApprovalCalls
    /\ isSubmitting' = [isSubmitting EXCEPT ![jobId] = TRUE]
    /\ successMessage' = Null
    /\ approvalRequests' = approvalRequests \cup
          {ApprovalCall("reject", "reject", jobId, notes[jobId])}
    /\ approvalCount' = approvalCount + 1
    /\ UNCHANGED <<approvals, approvalJobs, statusFilter, isLoading, error, notes>>

\* A try branch that releases the job before the reload has settled.
mutationResolved_ReleasesEarly(r) ==
    /\ successMessage' = IF r.kind = "approve" THEN StringsApprovalsApproveSuccess
                         ELSE StringsApprovalsRejectSuccess
    /\ load(approvalRequests \ {r}, r.kind, r.jobId)
    /\ isSubmitting' = [isSubmitting EXCEPT ![r.jobId] = FALSE]
    /\ UNCHANGED <<approvals, approvalJobs, statusFilter, notes>>

\* handleApprove / handleReject after the await, try branch: the success message,
\* then await load().
mutationResolved(r) ==
    /\ successMessage' = IF r.kind = "approve" THEN StringsApprovalsApproveSuccess
                         ELSE StringsApprovalsRejectSuccess
    /\ load(approvalRequests \ {r}, r.kind, r.jobId)
    /\ UNCHANGED <<approvals, approvalJobs, statusFilter, notes, isSubmitting>>

\* handleApprove / handleReject after the await, catch and finally.
mutationRejected(r, class) ==
    /\ approvalRequests' = approvalRequests \ {r}
    /\ error' = IF class = "NetworkError" THEN StringsSummaryOffline
                ELSE StringsApprovalsActionError
    /\ isSubmitting' = [isSubmitting EXCEPT ![r.jobId] = FALSE]
    /\ UNCHANGED <<approvals, approvalJobs, statusFilter, isLoading, successMessage, notes,
                   approvalCount>>

ApprovalsOp(name, action, jobId, ok) ==
    [op |-> name, action |-> action, jobId |-> jobId, ok |-> ok]

\* The approvals view does not touch the other components.
ApprovalsOnly ==
    UNCHANGED <<detailVars, listVars, authVars, clientVars, eventVars, actionVars,
                uploadVars, ledgerVars>>

\* The approve / reject buttons and the note field of a job are rendered for a
\* pending record under the selected tab once no load is running.
ActionsShown(jobId) ==
    /\ ~isLoading
    /\ jobId \in filteredApprovals
    /\ approvals[jobId] = "pending"

\* The view mounts: the effect calls load().
ApprovalsMount ==
    /\ ApprovalsOnly
    /\ approvalsLastOp.op = "init"
    /\ load(approvalRequests, "mount", NoJobId)
    /\ approvalsLastOp' = ApprovalsOp("mount", "mount", NoJobId, TRUE)
    /\ UNCHANGED <<approvals, approvalJobs, statusFilter, successMessage, notes,
                   isSubmitting, serverApprovals>>

\* A tab button: setStatusFilter(tab.key)
SelectTab ==
    \E tab \in ApprovalTabs \ {statusFilter} :
        /\ ApprovalsOnly
        /\ approvalsLastOp.op # "init"
        /\ statusFilter' = tab
        /\ approvalsLastOp' = ApprovalsOp("tab", "", NoJobId, TRUE)
        /\ UNCHANGED <<approvals, approvalJobs, isLoading, error, successMessage, notes,
                       isSubmitting, approvalRequests, approvalCount, serverApprovals>>

\* The note field: setNotes({...prev, [jobId]: value})
TypeNote ==
    \E jobId \in ApprovalIds, text \in NoteTexts :
        /\ ApprovalsOnly
        /\ ActionsShown(jobId)
        /\ text # notes[jobId]
        /\ notes' = [notes EXCEPT ![jobId] = text]
        /\ approvalsLastOp' = ApprovalsOp("note", "", jobId, TRUE)
        /\ UNCHANGED <<approvals, approvalJobs, statusFilter, isLoading, error,
                       successMessage, isSubmitting, approvalRequests, approvalCount,
                       serverApprovals>>

\* The approve button (disabled while the job is being submitted).
ClickApprove ==
    \E jobId \in ApprovalIds :
        /\ ApprovalsOnly
        /\ ActionsShown(jobId)
        /\ ~isSubmitting[jobId]
        /\ handleApprove(jobId)
        /\ approvalsLastOp' = ApprovalsOp("click", "approve", jobId, TRUE)
        /\ UNCHANGED serverApprovals

\* The reject button (disabled while the job is being submitted).
ClickReject ==
    \E jobId \in ApprovalIds :
        /\ ApprovalsOnly
        /\ ActionsShown(jobId)
        /\ ~isSubmitting[jobId]
        /\ handleReject(jobId)
        /\ approvalsLastOp' = ApprovalsOp("click", "reject", jobId, TRUE)
        /\ UNCHANGED serverApprovals

\* The job store reads its records to answer a load.
StoreAnswersLoad ==
    \E r \in approvalRequests :
        /\ ApprovalsOnly
        /\ r.kind = "load" /\ r.snapshot = Unread
        /\ approvalRequests' =
              (approvalRequests \ {r}) \cup {[r EXCEPT !.snapshot = serverApprovals]}
        /\ approvalsLastOp' = ApprovalsOp("read", r.action, r.jobId, TRUE)
        /\ UNCHANGED <<approvals, approvalJobs, statusFilter, isLoading, error,
                       successMessage, notes, isSubmitting, approvalCount, serverApprovals>>

\* The answer of a load arrives.
LoadResolves ==
    \E r \in approvalRequests :
        /\ ApprovalsOnly
        /\ r.kind = "load" /\ r.snapshot # Unread
        /\ loadResolved(r)
        /\ approvalsLastOp' = ApprovalsOp("loaded", r.action, r.jobId, TRUE)
        /\ UNCHANGED serverApprovals

\* A load fails.
LoadRejects ==
    \E r \in approvalRequests, class \in ErrorClasses :
        /\ ApprovalsOnly
        /\ r.kind = "load"
        /\ loadRejected(r, class)
        /\ approvalsLastOp' = ApprovalsOp("loaded", r.action, r.jobId, FALSE)
        /\ UNCHANGED serverApprovals

\* The job store applies an approve / reject and its answer arrives.
MutationResolves ==
    \E r \in approvalRequests :
        /\ ApprovalsOnly
        /\ r.kind \in {"approve", "reject"}
        /\ serverApprovals' = [serverApprovals EXCEPT ![r.jobId] =
              IF r.kind = "approve" THEN "approved" ELSE "rejected"]
        /\ mutationResolved(r)
        /\ approvalsLastOp' = ApprovalsOp("mutation", r.kind, r.jobId, TRUE)

\* An approve / reject fails: the call was refused, or it was applied and its
\* answer was lost.
MutationRejects ==
    \E r \in approvalRequests, class \in ErrorClasses, applied \in BOOLEAN :
        /\ ApprovalsOnly
        /\ r.kind \in {"approve", "reject"}
        /\ applied => class = "NetworkError"
        /\ serverApprovals' = IF applied
              THEN [serverApprovals EXCEPT ![r.jobId] =
                       IF r.kind = "approve" THEN "approved" ELSE "rejected"]
              ELSE serverApprovals
        /\ mutationRejected(r, class)
        /\ approvalsLastOp' = ApprovalsOp("mutation", r.kind, r.jobId, FALSE)

InitApprovals ==
    /\ approvals = NoRecords
    /\ approvalJobs = {}
    /\ statusFilter = "pending"
    /\ isLoading = TRUE
    /\ error = Null
    /\ successMessage = Null
    /\ notes = [j \in ApprovalIds |-> ""]
    /\ isSubmitting = [j \in ApprovalIds |-> FALSE]
    /\ approvalRequests = {}
    /\ approvalCount = 0
    /\ serverApprovals = [j \in ApprovalIds |-> "pending"]
    /\ approvalsLastOp = ApprovalsOp("init", "", NoJobId, TRUE)

NextApprovals ==
    \/ ApprovalsMount
    \/ SelectTab
    \/ TypeNote
    \/ ClickApprove
    \/ ClickReject
    \/ StoreAnswersLoad
    \/ LoadResolves
    \/ LoadRejects
    \/ MutationResolves
    \/ MutationRejects

(***************************************************************************)
(* Jobs.tsx: export, sync and payment handlers                             *)
(***************************************************************************)
StringsJobsExportError == "strings.jobs.exportError"
StringsJobsExportInvoicesError == "strings.jobs.exportInvoicesError"
StringsJobsExportJournalError == "strings.jobs.exportJournalError"
StringsJobsSyncSuccess == "strings.jobs.syncSuccess"
StringsJobsSyncError == "strings.jobs.syncError"
StringsJobsExecutePaymentsSuccess == "strings.jobs.executePaymentsSuccess"
StringsJobsExecutePaymentsError == "strings.jobs.executePaymentsError"

SyncTargets == {"freee", "yayoi"}

\* The jobs the job store reports with approvalStatus "approved".
ApprovedIds == {"JOB-1"}

\* useMemo: jobs.filter((job) => job.approvalStatus === "approved")
approvedJobs == SelectSeq(jobs, LAMBDA j : j \in ApprovedIds)

\* A call of an export, sync or payment endpoint is issued.
SendAction(handler) ==
    /\ actionCount < MaxUserActions
    /\ actionRequests' = actionRequests \cup {[n |-> actionCount + 1, handler |-> handler]}
    /\ actionCount' = actionCount + 1

\* handleExport up to its await
handleExport ==
    /\ exportError' = Null
    /\ isExporting' = TRUE
    /\ SendAction("handleExport")
    /\ UNCHANGED <<exportInvoicesVars, exportJournalVars, syncVars, paymentsVars>>

\* handleExportInvoices up to its await
handleExportInvoices ==
    /\ exportInvoicesError' = Null
    /\ isExportingInvoices' = TRUE
    /\ SendAction("handleExportInvoices")
    /\ UNCHANGED <<exportVars, exportJournalVars, syncVars, paymentsVars>>

\* handleExportJournal up to its await
handleExportJournal ==
    /\ exportJournalError' = Null
    /\ isExportingJournal' = TRUE
    /\ SendAction("handleExportJournal")
    /\ UNCHANGED <<exportVars, exportInvoicesVars, syncVars, paymentsVars>>

\* handleSync up to its await
handleSync(target) ==
    /\ syncError' = Null
    /\ syncMessage' = Null
    /\ syncingTarget' = target
    /\ SendAction("handleSync")
    /\ UNCHANGED <<exportVars, exportInvoicesVars, exportJournalVars, paymentsVars>>

\* handleExecutePayments up to its await
handleExecutePayments ==
    /\ paymentsError' = Null
    /\ paymentsMessage' = Null
    /\ paymentsLoading' = TRUE
    /\ SendAction("handleExecutePayments")
    /\ UNCHANGED <<exportVars, exportInvoicesVars, exportJournalVars, syncVars>>

\* A handler after its await, try branch and finally: the exports trigger the
\* download, sync and payments store their success message.
actionResolved(r) ==
    /\ actionRequests' = actionRequests \ {r}
    /\ CASE r.handler = "handleExport" ->
              /\ isExporting' = FALSE
              /\ UNCHANGED <<exportError, exportInvoicesVars, exportJournalVars, syncVars,
                             paymentsVars>>
         [] r.handler = "handleExportInvoices" ->
              /\ isExportingInvoices' = FALSE
              /\ UNCHANGED <<exportInvoicesError, exportVars, exportJournalVars, syncVars,
                             paymentsVars>>
         [] r.handler = "handleExportJournal" ->
              /\ isExportingJournal' = FALSE
              /\ UNCHANGED <<exportJournalError, exportVars, exportInvoicesVars, syncVars,
                             paymentsVars>>
         [] r.handler = "handleSync" ->
              /\ syncMessage' = StringsJobsSyncSuccess
              /\ syncingTarget' = Null
              /\ UNCHANGED <<syncError, exportVars, exportInvoicesVars, exportJournalVars,
                             paymentsVars>>
         [] r.handler = "handleExecutePayments" ->
              /\ paymentsMessage' = StringsJobsExecutePaymentsSuccess
              /\ paymentsLoading' = FALSE
              /\ UNCHANGED <<paymentsError, exportVars, exportInvoicesVars,
                             exportJournalVars, syncVars>>

\* Handlers without the finally block: the error message is stored, the busy flag
\* stays set.
actionRejected_StaysBusy(r, class) ==
    /\ actionRequests' = actionRequests \ {r}
    /\ exportError' =
          IF r.handler = "handleExport" THEN StringsJobsExportError ELSE exportError
    /\ exportInvoicesError' =
          IF r.handler = "handleExportInvoices" THEN StringsJobsExportInvoicesError
          ELSE exportInvoicesError
    /\ exportJournalError' =
          IF r.handler = "handleExportJournal" THEN StringsJobsExportJournalError
          ELSE exportJournalError
    /\ syncError' = IF r.handler = "handleSync" THEN StringsJobsSyncError ELSE syncError
    /\ paymentsError' =
          IF r.handler = "handleExecutePayments" THEN StringsJobsExecutePaymentsError
          ELSE paymentsError
    /\ UNCHANGED <<isExporting, isExportingInvoices, isExportingJournal, syncingTarget,
                   paymentsLoading, syncMessage, paymentsMessage>>

\* A handler after its await, catch and finally: its own error message by error
\* class, its busy flag reset.
actionRejected(r, class) ==
    /\ actionRequests' = actionRequests \ {r}
    /\ CASE r.handler = "handleExport" ->
              /\ exportError' = StringsJobsExportError
              /\ isExporting' = FALSE
              /\ UNCHANGED <<exportInvoicesVars, exportJournalVars, syncVars, paymentsVars>>
         [] r.handler = "handleExportInvoices" ->
              /\ exportInvoicesError' = StringsJobsExportInvoicesError
              /\ isExportingInvoices' = FALSE
              /\ UNCHANGED <<exportVars, exportJournalVars, syncVars, paymentsVars>>
         [] r.handler = "handleExportJournal" ->
              /\ exportJournalError' = StringsJobsExportJournalError
              /\ isExportingJournal' = FALSE
              /\ UNCHANGED <<exportVars, exportInvoicesVars, syncVars, paymentsVars>>
         [] r.handler = "handleSync" ->
              /\ syncError' = IF class = "NetworkError" THEN StringsSummaryOffline
                              ELSE StringsJobsSyncError
              /\ syncingTarget' = Null
              /\ UNCHANGED <<syncMessage, exportVars, exportInvoicesVars,
                             exportJournalVars, paymentsVars>>
         [] r.handler = "handleExecutePayments" ->
              /\ paymentsError' = IF class = "NetworkError" THEN StringsSummaryOffline
                                  ELSE StringsJobsExecutePaymentsError
              /\ paymentsLoading' = FALSE
              /\ UNCHANGED <<paymentsMessage, exportVars, exportInvoicesVars,
                             exportJournalVars, syncVars>>

ActionOp(name, handler, ok) == [op |-> name, handler |-> handler, ok |-> ok]

\* The handlers of the buttons do not touch the list state of the view nor the
\* other components.
ButtonsOnly ==
    UNCHANGED <<detailVars, listVars, authVars, clientVars, eventVars, approvalVars,
                uploadVars, ledgerVars>>

\* The CSV export button: disabled={isExporting || jobs.length === 0}
ClickExport ==
    /\ ButtonsOnly
    /\ listMounted
    /\ ~isExporting /\ Len(jobs) > 0
    /\ handleExport
    /\ actionLastOp' = ActionOp("click", "handleExport", TRUE)

ClickExportInvoices ==
    /\ ButtonsOnly
    /\ listMounted
    /\ ~isExportingInvoices /\ Len(jobs) > 0
    /\ handleExportInvoices
    /\ actionLastOp' = ActionOp("click", "handleExportInvoices", TRUE)

ClickExportJournal ==
    /\ ButtonsOnly
    /\ listMounted
    /\ ~isExportingJournal /\ Len(jobs) > 0
    /\ handleExportJournal
    /\ actionLastOp' = ActionOp("click", "handleExportJournal", TRUE)

\* The sync buttons: disabled={approvedJobs.length === 0 || syncingTarget !== null}
ClickSync ==
    \E target \in SyncTargets :
        /\ ButtonsOnly
        /\ listMounted
        /\ Len(approvedJobs) > 0 /\ syncingTarget = Null
        /\ handleSync(target)
        /\ actionLastOp' = ActionOp("click", "handleSync", TRUE)

\* The payments button: disabled={approvedJobs.length === 0 || paymentsLoading}
ClickExecutePayments ==
    /\ ButtonsOnly
    /\ listMounted
    /\ Len(approvedJobs) > 0 /\ ~paymentsLoading
    /\ handleExecutePayments
    /\ actionLastOp' = ActionOp("click", "handleExecutePayments", TRUE)

\* The call of a handler resolves.
ActionResolves ==
    \E r \in actionRequests :
        /\ ButtonsOnly
        /\ listMounted
        /\ actionResolved(r)
        /\ actionLastOp' = ActionOp("settled", r.handler, TRUE)
        /\ UNCHANGED actionCount

\* The call of a handler rejects.
ActionRejects ==
    \E r \in actionRequests, class \in ErrorClasses :
        /\ ButtonsOnly
        /\ listMounted
        /\ actionRejected(r, class)
        /\ actionLastOp' = ActionOp("settled", r.handler, FALSE)
        /\ UNCHANGED actionCount

InitActions ==
    /\ isExporting = FALSE /\ exportError = Null
    /\ isExportingInvoices = FALSE /\ exportInvoicesError = Null
    /\ isExportingJournal = FALSE /\ exportJournalError = Null
    /\ syncingTarget = Null /\ syncMessage = Null /\ syncError = Null
    /\ paymentsLoading = FALSE /\ paymentsMessage = Null /\ paymentsError = Null
    /\ actionRequests = {}
    /\ actionCount = 0
    /\ actionLastOp = ActionOp("init", "", TRUE)

\* The router shows one page at a time: the Jobs page and the Approvals page are
\* mounted only while the other one is not. The Jobs page loads its list once here;
\* its periodic refreshes are the subject of SpecList.
JobsPageMount == ListMount /\ approvalsLastOp.op = "init"

ApprovalsPageMount == ApprovalsMount /\ ~listMounted /\ listLastOp.op = "init"

NextUserActions ==
    \/ JobsPageMount
    \/ ListResolve
    \/ ClickExport
    \/ ClickExportInvoices
    \/ ClickExportJournal
    \/ ClickSync
    \/ ClickExecutePayments
    \/ ActionResolves
    \/ ActionRejects
    \/ ApprovalsPageMount
    \/ SelectTab
    \/ TypeNote
    \/ ClickApprove
    \/ ClickReject
    \/ StoreAnswersLoad
    \/ LoadResolves
    \/ LoadRejects
    \/ MutationResolves
    \/ MutationRejects

(***************************************************************************)
(* Upload.tsx                                                              *)
(* The document type and the enhance flag are passed to registerJob as     *)
(* they are and are left out.                                              *)
(***************************************************************************)
MAX_FILE_SIZE == 52428800
ALLOWED_EXTENSIONS ==
    { <<".","p","d","f">>, <<".","c","s","v">>, <<".","x","l","s","x">>,
      <<".","z","i","p">>, <<".","j","p","e","g">>, <<".","j","p","g">> }

\* The files the user may pick: a PDF of exactly the size limit, a JPEG whose
\* extension is in upper case, a GIF, a PDF one byte over the limit, a file without
\* extension.
FirstPdf == [name |-> <<"f","i","r","s","t",".","p","d","f">>, size |-> MAX_FILE_SIZE]
SecondJpg == [name |-> <<"s","e","c","o","n","d",".","J","P","G">>, size |-> 3]
ImageGif == [name |-> <<"i","m","a","g","e",".","g","i","f">>, size |-> 3]
LargePdf == [name |-> <<"l","a","r","g","e",".","p","d","f">>, size |-> MAX_FILE_SIZE + 1]
Readme == [name |-> <<"R","E","A","D","M","E">>, size |-> 3]
FilePool == {FirstPdf, SecondJpg, ImageGif, LargePdf, Readme}

\* The ids the job store gives to the jobs it creates ("JOB-3001" is 3001), in any
\* order, none twice.
JobIdPool == 3001..(3000 + MaxRegisterCalls)

NoIndex == -1
NoName == <<>>
NoUploadError == [key |-> Null, name |-> NoName]
UploadError(key, name) == [key |-> key, name |-> name]
NoJobCreated == 0
NoStatusMessage == [key |-> Null, current |-> 0, total |-> 0, jobId |-> NoJobCreated]
StatusMessage(key, current, total, jobId) ==
    [key |-> key, current |-> current, total |-> total, jobId |-> jobId]
PipelineStagesLength == 4

\* fileName.lastIndexOf("."), counted from 1; 0 when there is no dot.
LastIndexOfDot(fileName) ==
    LET dots == {i \in 1..Len(fileName) : fileName[i] = "."}
    IN  IF dots = {} THEN 0 ELSE CHOOSE i \in dots : \A k \in dots : k <= i

normalizeExtension(fileName) ==
    LET lastDot == LastIndexOfDot(fileName)
    IN  IF lastDot = 0 THEN <<>>
        ELSE ToLowerCase(SubSeq(fileName, lastDot, Len(fileName)))

\* isAllowedExtension that accepts every name
isAllowedExtension_AcceptsAll(fileName) == TRUE

isAllowedExtension(fileName) == normalizeExtension(fileName) \in ALLOWED_EXTENSIONS

\* Array.prototype.find as the position of the first match, 0 when there is none.
FindTooLarge ==
    LET hits == {i \in 1..Len(files) : files[i].size > MAX_FILE_SIZE}
    IN  IF hits = {} THEN 0 ELSE CHOOSE i \in hits : \A k \in hits : i <= k
FindUnsupported ==
    LET hits == {i \in 1..Len(files) : ~isAllowedExtension(files[i].name)}
    IN  IF hits = {} THEN 0 ELSE CHOOSE i \in hits : \A k \in hits : i <= k

\* registerJob(file, documentType, {enhance}) is called; inFlight are the other
\* calls in flight.
registerJob(inFlight, file) ==
    /\ uploadRequests' = inFlight \cup {[n |-> registerCount + 1, file |-> file]}
    /\ registerCount' = registerCount + 1

\* handleSubmit up to its first await: the three validations, then the upload state
\* and the registerJob call for the first file.
handleSubmit ==
    IF Len(files) = 0
       THEN /\ uploadError' = UploadError("strings.upload.noFile", NoName)
            /\ UNCHANGED <<files, isUploading, statusMessage, uploadedJobIds, pipelineStep,
                           currentFileIndex, createdJobs, uploadIndex, uploadRequests,
                           registerCount>>
    ELSE IF FindTooLarge # 0
       THEN /\ uploadError' =
                  UploadError("strings.upload.fileTooLarge", files[FindTooLarge].name)
            /\ UNCHANGED <<files, isUploading, statusMessage, uploadedJobIds, pipelineStep,
                           currentFileIndex, createdJobs, uploadIndex, uploadRequests,
                           registerCount>>
    ELSE IF FindUnsupported # 0
       THEN /\ uploadError' =
                  UploadError("strings.upload.fileUnsupported", files[FindUnsupported].name)
            /\ UNCHANGED <<files, isUploading, statusMessage, uploadedJobIds, pipelineStep,
                           currentFileIndex, createdJobs, uploadIndex, uploadRequests,
                           registerCount>>
    ELSE /\ registerCount + Len(files) <= MaxRegisterCalls
         /\ isUploading' = TRUE
         /\ uploadError' = NoUploadError
         /\ uploadedJobIds' = <<>>
         /\ pipelineStep' = 1
         /\ statusMessage' =
               IF Len(files) = 1
                  THEN StatusMessage("strings.upload.uploading", 0, 0, NoJobCreated)
                  ELSE StatusMessage("strings.upload.uploadingBatch", 1, Len(files), NoJobCreated)
         /\ currentFileIndex' = 0
         /\ createdJobs' = <<>>
         /\ uploadIndex' = 0
         /\ registerJob(uploadRequests, files[1])
         /\ UNCHANGED files

\* The loop body that puts the new id in front of the ids collected so far.
registerResolved_Prepends(r, jobId) ==
    LET created == <<jobId>> \o createdJobs
        index == uploadIndex + 1
    IN  IF index < Len(files)
           THEN /\ createdJobs' = created
                /\ uploadIndex' = index
                /\ pipelineStep' = 1
                /\ currentFileIndex' = index
                /\ statusMessage' = StatusMessage("strings.upload.uploadingBatch",
                                                  index + 1, Len(files), NoJobCreated)
                /\ registerJob(uploadRequests \ {r}, files[index + 1])
                /\ UNCHANGED <<files, isUploading, uploadError, uploadedJobIds>>
           ELSE /\ uploadRequests' = uploadRequests \ {r}
                /\ files' = <<>>
                /\ uploadedJobIds' = created
                /\ currentFileIndex' = NoIndex
                /\ pipelineStep' = PipelineStagesLength
                /\ statusMessage' =
                      IF Len(created) = 1
                         THEN StatusMessage("strings.upload.success", 0, 0, created[1])
                         ELSE StatusMessage("strings.upload.successMultiple",
                                            Len(created), 0, NoJobCreated)
                /\ isUploading' = FALSE
                /\ createdJobs' = <<>>
                /\ uploadIndex' = NoIndex
                /\ UNCHANGED <<uploadError, registerCount>>

\* handleSubmit after an await of registerJob resolved: the id is collected; then
\* either the next turn of the loop up to its await, or the end of the try block
\* and the finally block.
registerResolved(r, jobId) ==
    LET created == Append(createdJobs, jobId)
        index == uploadIndex + 1
    IN  IF index < Len(files)
           THEN /\ createdJobs' = created
                /\ uploadIndex' = index
                /\ pipelineStep' = 1
                /\ currentFileIndex' = index
                /\ statusMessage' = StatusMessage("strings.upload.uploadingBatch",
                                                  index + 1, Len(files), NoJobCreated)
                /\ registerJob(uploadRequests \ {r}, files[index + 1])
                /\ UNCHANGED <<files, isUploading, uploadError, uploadedJobIds>>
           ELSE /\ uploadRequests' = uploadRequests \ {r}
                /\ files' = <<>>
                /\ uploadedJobIds' = created
                /\ currentFileIndex' = NoIndex
                /\ pipelineStep' = PipelineStagesLength
                /\ statusMessage' =
                      IF Len(created) = 1
                         THEN StatusMessage("strings.upload.success", 0, 0, created[1])
                         ELSE StatusMessage("strings.upload.successMultiple",
                                            Len(created), 0, NoJobCreated)
                /\ isUploading' = FALSE
                /\ createdJobs' = <<>>
                /\ uploadIndex' = NoIndex
                /\ UNCHANGED <<uploadError, registerCount>>

\* A catch block that leaves out setUploadedJobIds(createdJobs).
registerRejected_DropsCreatedJobs(r, unauthorized) ==
    /\ uploadRequests' = uploadRequests \ {r}
    /\ uploadError' = IF unauthorized
                         THEN UploadError("strings.upload.loginRequired", NoName)
                         ELSE UploadError("strings.upload.failed", NoName)
    /\ statusMessage' = NoStatusMessage
    /\ pipelineStep' = 0
    /\ currentFileIndex' = NoIndex
    /\ isUploading' = FALSE
    /\ createdJobs' = <<>>
    /\ uploadIndex' = NoIndex
    /\ UNCHANGED <<files, registerCount, uploadedJobIds>>

\* handleSubmit after an await of registerJob rejected: catch and finally.
registerRejected(r, unauthorized) ==
    /\ uploadRequests' = uploadRequests \ {r}
    /\ uploadError' = IF unauthorized
                         THEN UploadError("strings.upload.loginRequired", NoName)
                         ELSE UploadError("strings.upload.failed", NoName)
    /\ statusMessage' = NoStatusMessage
    /\ pipelineStep' = 0
    /\ uploadedJobIds' = IF Len(createdJobs) > 0 THEN createdJobs ELSE uploadedJobIds
    /\ currentFileIndex' = NoIndex
    /\ isUploading' = FALSE
    /\ createdJobs' = <<>>
    /\ uploadIndex' = NoIndex
    /\ UNCHANGED <<files, registerCount>>

\* handleFileChange with a non-empty selection
handleFileChange(selectedFiles) ==
    /\ statusMessage' = NoStatusMessage
    /\ uploadError' = NoUploadError
    /\ uploadedJobIds' = <<>>
    /\ pipelineStep' = 0
    /\ currentFileIndex' = NoIndex
    /\ files' = files \o selectedFiles
    /\ UNCHANGED <<isUploading, createdJobs, uploadIndex, uploadRequests, registerCount>>

clearSelection ==
    /\ files' = <<>>
    /\ statusMessage' = NoStatusMessage
    /\ uploadedJobIds' = <<>>
    /\ currentFileIndex' = NoIndex
    /\ pipelineStep' = 0
    /\ UNCHANGED <<uploadError, isUploading, createdJobs, uploadIndex, uploadRequests,
                   registerCount>>

UploadOp(name, ok) == [op |-> name, ok |-> ok]

\* The upload view does not touch the other components.
UploadOnly ==
    UNCHANGED <<detailVars, listVars, authVars, clientVars, eventVars, approvalVars,
                actionVars, ledgerVars>>

\* History of the registerJob calls: a handleSubmit step starts a new record, every
\* call issued is logged with its file; a change of the selection ends the record.
LogCalls(startsAfresh) ==
    LET before == IF startsAfresh THEN <<>> ELSE registerLog
        issued == uploadRequests' \ uploadRequests
    IN  /\ registerLog' = IF issued = {} THEN before
                          ELSE Append(before, (CHOOSE r \in issued : TRUE).file)
        /\ submittedFiles' = IF startsAfresh THEN files ELSE submittedFiles

\* The file input (disabled while uploading): the user adds a file to the selection.
SelectFile ==
    \E file \in FilePool :
        /\ UploadOnly
        /\ ~isUploading
        /\ Len(files) < MaxFiles
        /\ handleFileChange(<<file>>)
        /\ uploadLastOp' = UploadOp("select", TRUE)
        /\ submittedFiles' = <<>> /\ registerLog' = <<>> /\ returnedIds' = <<>>
        /\ UNCHANGED <<storeJobIds, storeJobFiles>>

\* The change-file and clear-selection buttons (rendered with a selection, disabled
\* while uploading).
ClickClearSelection ==
    /\ UploadOnly
    /\ Len(files) > 0 /\ ~isUploading
    /\ clearSelection
    /\ uploadLastOp' = UploadOp("clear", TRUE)
    /\ submittedFiles' = <<>> /\ registerLog' = <<>> /\ returnedIds' = <<>>
    /\ UNCHANGED <<storeJobIds, storeJobFiles>>

\* The submit button: disabled={files.length === 0 || isUploading}
ClickSubmit ==
    /\ UploadOnly
    /\ Len(files) > 0 /\ ~isUploading
    /\ handleSubmit
    /\ LogCalls(TRUE)
    /\ returnedIds' = <<>>
    /\ uploadLastOp' = UploadOp("submit", TRUE)
    /\ UNCHANGED <<storeJobIds, storeJobFiles>>

\* The try-again button of the error banner: onClick={() => handleSubmit()}
ClickTryAgain ==
    /\ UploadOnly
    /\ uploadError # NoUploadError /\ ~isUploading
    /\ handleSubmit
    /\ LogCalls(TRUE)
    /\ returnedIds' = <<>>
    /\ uploadLastOp' = UploadOp("tryAgain", TRUE)
    /\ UNCHANGED <<storeJobIds, storeJobFiles>>

\* The job store creates the job and registerJob resolves with it.
RegisterResolves ==
    \E r \in uploadRequests, jobId \in JobIdPool \ storeJobIds :
        /\ UploadOnly
        /\ storeJobIds' = storeJobIds \cup {jobId}
        /\ storeJobFiles' = Append(storeJobFiles, r.file)
        /\ registerResolved(r, jobId)
        /\ LogCalls(FALSE)
        /\ returnedIds' = Append(returnedIds, jobId)
        /\ uploadLastOp' = UploadOp(IF isUploading' THEN "registered" ELSE "uploaded", TRUE)

\* registerJob rejects: a 401 (UnauthorizedError) or any other failure.
RegisterRejects ==
    \E r \in uploadRequests, unauthorized \in BOOLEAN :
        /\ UploadOnly
        /\ registerRejected(r, unauthorized)
        /\ LogCalls(FALSE)
        /\ UNCHANGED returnedIds
        /\ uploadLastOp' = UploadOp("rejected", FALSE)
        /\ UNCHANGED <<storeJobIds, storeJobFiles>>

InitUpload ==
    /\ files = <<>>
    /\ isUploading = FALSE
    /\ statusMessage = NoStatusMessage
    /\ uploadError = NoUploadError
    /\ uploadedJobIds = <<>>
    /\ pipelineStep = 0
    /\ currentFileIndex = NoIndex
    /\ createdJobs = <<>>
    /\ uploadIndex = NoIndex
    /\ uploadRequests = {}
    /\ registerCount = 0
    /\ storeJobIds = {}
    /\ storeJobFiles = <<>>
    /\ submittedFiles = <<>>
    /\ registerLog = <<>>
    /\ returnedIds = <<>>
    /\ uploadLastOp = UploadOp("init", TRUE)

NextUpload ==
    \/ SelectFile
    \/ ClickClearSelection
    \/ ClickSubmit
    \/ ClickTryAgain
    \/ RegisterResolves
    \/ RegisterRejects

(***************************************************************************)
(* ledger.ts                                                               *)
(* Amounts are counted in hundredths; the inputs have at most two decimals.*)
(***************************************************************************)
MaxLedgerRows == 3

UpperCaseOf ==
    [a |-> "A", b |-> "B", c |-> "C", d |-> "D", e |-> "E", f |-> "F",
     g |-> "G", h |-> "H", i |-> "I", j |-> "J", k |-> "K", l |-> "L",
     m |-> "M", n |-> "N", o |-> "O", p |-> "P", q |-> "Q", r |-> "R",
     s |-> "S", t |-> "T", u |-> "U", v |-> "V", w |-> "W", x |-> "X",
     y |-> "Y", z |-> "Z"]

ToUpperCase(s) ==
    [i \in 1..Len(s) |-> IF s[i] \in DOMAIN UpperCaseOf THEN UpperCaseOf[s[i]] ELSE s[i]]

\* String.prototype.trim
Trim(s) ==
    LET inked == {i \in 1..Len(s) : s[i] # " "}
    IN  IF inked = {} THEN <<>>
        ELSE SubSeq(s, CHOOSE i \in inked : \A k \in inked : i <= k,
                       CHOOSE i \in inked : \A k \in inked : k <= i)

\* A field that is not there; a field that is there holds a string (a sequence of
\* characters) or a number.
Undefined == [type |-> "undefined", text |-> <<>>, num |-> 0, nan |-> FALSE]
Str(text) == [type |-> "string", text |-> text, num |-> 0, nan |-> FALSE]
Num(hundredths) == [type |-> "number", text |-> <<>>, num |-> hundredths, nan |-> FALSE]
NaN == [type |-> "number", text |-> <<>>, num |-> 0, nan |-> TRUE]

\* a ?? b
Coalesce(a, b) == IF a # Undefined THEN a ELSE b

DigitValue ==
    [c \in {"0", "1", "2", "3", "4", "5", "6", "7", "8", "9"} |->
        CASE c = "0" -> 0 [] c = "1" -> 1 [] c = "2" -> 2 [] c = "3" -> 3 [] c = "4" -> 4
          [] c = "5" -> 5 [] c = "6" -> 6 [] c = "7" -> 7 [] c = "8" -> 8 [] c = "9" -> 9]
IsDigit(c) == c \in DOMAIN DigitValue

\* The number of digits text starts with.
LeadingDigits(text) ==
    CHOOSE n \in 0..Len(text) :
        /\ \A i \in 1..n : IsDigit(text[i])
        /\ n < Len(text) => ~IsDigit(text[n + 1])

RECURSIVE Decimal(_)
Decimal(digits) ==
    IF digits = <<>> THEN 0
    ELSE Decimal(SubSeq(digits, 1, Len(digits) - 1)) * 10 + DigitValue[digits[Len(digits)]]

\* Number.parseFloat of an unsigned decimal: leading blanks are skipped, the longest
\* prefix that is a number is read, NaN when there is none.
ParseFloat(text) ==
    LET blanks == CHOOSE n \in 0..Len(text) :
                      /\ \A i \in 1..n : text[i] = " "
                      /\ n < Len(text) => text[n + 1] # " "
        body == SubSeq(text, blanks + 1, Len(text))
        whole == LeadingDigits(body)
        rest == SubSeq(body, whole + 1, Len(body))
        hasPoint == rest # <<>> /\ Head(rest) = "."
        fraction == IF hasPoint THEN SubSeq(rest, 2, 1 + LeadingDigits(Tail(rest)))
                    ELSE <<>>
        hundredths == IF fraction = <<>> THEN 0
                      ELSE IF Len(fraction) = 1 THEN Decimal(fraction) * 10
                      ELSE Decimal(SubSeq(fraction, 1, 2))
    IN  IF whole = 0 /\ fraction = <<>> THEN NaN
        ELSE Num(Decimal(SubSeq(body, 1, whole)) * 100 + hundredths)

Threw(message) == [threw |-> message, value |-> 0]
Returned(value) == [threw |-> Null, value |-> value]

coerceNumber(value) ==
    IF value = Undefined THEN Threw("Missing amount/amt field")
    ELSE LET num == IF value.type = "number" THEN value ELSE ParseFloat(value.text)
         IN  IF num.nan THEN Threw("Amount is not numeric") ELSE Returned(num.num)

normalizeCurrency(currency) ==
    LET text == ToUpperCase(Trim(IF currency = Undefined THEN <<"U","S","D">>
                                 ELSE currency.text))
    IN  IF text = <<>> THEN <<"U","S","D">> ELSE text

\* Map.prototype.set that moves a key it already holds to the end
MapSet_MovesToEnd(seen, key, value) ==
    Append(SelectSeq(seen, LAMBDA entry : entry.account # key), value)

\* Map.prototype.set on a Map kept as the sequence of its values in insertion order:
\* a key the Map already holds keeps its place.
MapSet(seen, key, value) ==
    IF \E i \in 1..Len(seen) : seen[i].account = key
       THEN [i \in 1..Len(seen) |-> IF seen[i].account = key THEN value ELSE seen[i]]
       ELSE Append(seen, value)

\* rows.forEach((row) => ...) from the Map seen on; the first throw ends the call.
RECURSIVE forEachRow(_, _)
forEachRow(rows, seen) ==
    IF rows = <<>> THEN [threw |-> Null, rows |-> seen]
    ELSE LET row == Head(rows)
             account == Trim(Coalesce(Coalesce(row.account, row.acct), Str(<<>>)).text)
             amount == coerceNumber(Coalesce(row.amount, row.amt))
         IN  IF account = <<>>
                THEN [threw |-> "Missing account/acct field", rows |-> <<>>]
             ELSE IF amount.threw # Null
                THEN [threw |-> amount.threw, rows |-> <<>>]
             ELSE forEachRow(Tail(rows),
                             MapSet(seen, account,
                                    [account |-> account,
                                     amount |-> amount.value,
                                     currency |-> normalizeCurrency(row.currency)]))

normalizeLedger(rows) == forEachRow(rows, <<>>)

\* The raw rows the API may deliver.
RawRow(account, acct, amount, amt, currency) ==
    [account |-> account, acct |-> acct, amount |-> amount, amt |-> amt,
     currency |-> currency]
RowAcctA ==
    RawRow(Undefined, Str(<<"A">>), Undefined, Str(<<"1",".","2","5">>), Str(<<"u","s","d">>))
RowAccountA == RawRow(Str(<<"A">>), Undefined, Num(200), Undefined, Str(<<"U","S","D">>))
RowAccountB == RawRow(Str(<<"B">>), Undefined, Num(300), Undefined, Undefined)
RowPaddedA ==
    RawRow(Str(<<" ","A"," ">>), Str(<<"B">>), Str(<<" ","7">>), Num(900),
           Str(<<" ","e","u","r"," ">>))
RowAccountC ==
    RawRow(Str(<<"C">>), Undefined, Undefined, Str(<<"2",".","5","x">>), Str(<<" "," ">>))
RowNoAccount == RawRow(Undefined, Undefined, Num(100), Undefined, Undefined)
RowBlankAccount == RawRow(Str(<<" ">>), Str(<<"A">>), Num(100), Undefined, Undefined)
RowNoAmount == RawRow(Undefined, Str(<<"B">>), Undefined, Undefined, Str(<<>>))
RowNotNumeric == RawRow(Str(<<"B">>), Undefined, Str(<<"x","1">>), Undefined, Undefined)
RawRows ==
    {RowAcctA, RowAccountA, RowAccountB, RowPaddedA, RowAccountC, RowNoAccount,
     RowBlankAccount, RowNoAmount, RowNotNumeric}

LedgerInputs == UNION {[1..n -> RawRows] : n \in 0..MaxLedgerRows}

NotCalled == [threw |-> "not called", rows |-> <<>>]

\* The caller applies normalizeLedger to the rows it received.
CallNormalizeLedger ==
    /\ ledgerResult = NotCalled
    /\ ledgerResult' = normalizeLedger(ledgerRows)
    /\ UNCHANGED <<ledgerRows, summaryRows, summaryTotals>>
    /\ UNCHANGED <<detailVars, listVars, authVars, clientVars, eventVars, approvalVars,
                   actionVars, uploadVars>>

\* IEEE 754 doubles near decimal amounts.  A double is [n, e]: it is the number
\* (n * 2^FloatBits + e) / (1000 * 2^FloatBits), n thousandths and a
\* representation error e.  Amounts lie between 0.001 and 64.
FloatBits == 62
MaxSummaryRows == 3

RECURSIVE Pow2(_)
Pow2(k) == IF k = 0 THEN 1 ELSE 2 * Pow2(k - 1)

RECURSIVE MulMod(_, _, _)
MulMod(a, b, m) ==
    IF b = 0 THEN 0
    ELSE (2 * MulMod(a, b \div 2, m) + (IF b % 2 = 1 THEN a % m ELSE 0)) % m

\* 2^k mod m, by squaring
RECURSIVE Pow2Mod(_, _)
Pow2Mod(k, m) ==
    IF k = 0 THEN 1 % m
    ELSE LET half == Pow2Mod(k \div 2, m)
             square == MulMod(half, half, m)
         IN  IF k % 2 = 1 THEN (2 * square) % m ELSE square

\* (n * 2^FloatBits + e) mod m
ScaledMod(n, e, m) == (MulMod(n, Pow2Mod(FloatBits, m), m) + (e % m)) % m

\* The binary exponent of the number: the largest k with 2^k <= number.
AtLeastPow2(n, e, k) ==
    LET a == n * Pow2(IF k < 0 THEN -k ELSE 0)
        b == 1000 * Pow2(IF k > 0 THEN k ELSE 0)
    IN  a > b \/ (a = b /\ e >= 0)
Exponent(n, e) ==
    CHOOSE k \in -11..5 :
        AtLeastPow2(n, e, k) /\ \A j \in -11..5 : AtLeastPow2(n, e, j) => j <= k

\* Round to nearest double, ties to even (the rounding of every double operation).
RoundToDouble(n, e) ==
    IF n = 0 /\ e = 0 THEN [n |-> 0, e |-> 0]
    ELSE LET m == 1000 * Pow2(Exponent(n, e) + 10)
             r == ScaledMod(n, e, m)
             odd == (ScaledMod(n, e, 2 * m) - r) \div m = 1
         IN  IF r = 0 THEN [n |-> n, e |-> e]
             ELSE IF 2 * r < m \/ (2 * r = m /\ ~odd) THEN [n |-> n, e |-> e - r]
             ELSE [n |-> n, e |-> e + m - r]

\* The double a decimal literal of so many thousandths denotes.
Double(thousandths) == RoundToDouble(thousandths, 0)

\* current + row.amount
AddDoubles(a, b) == RoundToDouble(a.n + b.n, a.e + b.e)

\* Number.prototype.toFixed(2) as a number of hundredths: the n for which n / 100 is
\* nearest to the double, the larger one of two.
ToFixed2(x) ==
    (x.n \div 10) + (IF x.n % 10 > 5 \/ (x.n % 10 = 5 /\ x.e >= 0) THEN 1 ELSE 0)

\* Number.parseFloat of the string toFixed(2) made
ParseFixed2(hundredths) == Double(10 * hundredths)

\* totals.get(currency) ?? 0
TotalsGet(totals, currency) ==
    IF \E i \in 1..Len(totals) : totals[i].currency = currency
       THEN (CHOOSE entry \in {totals[i] : i \in 1..Len(totals)} :
                 entry.currency = currency).total
       ELSE Double(0)

\* totals.set(currency, total) on the Map kept as the sequence of its entries
TotalsSet(totals, currency, total) ==
    LET entry == [currency |-> currency, total |-> total]
    IN  IF \E i \in 1..Len(totals) : totals[i].currency = currency
           THEN [i \in 1..Len(totals) |->
                    IF totals[i].currency = currency THEN entry ELSE totals[i]]
           ELSE Append(totals, entry)

\* CurrencySummary.from: rows.forEach from the Map totals on
RECURSIVE from(_, _)
from(rows, totals) ==
    IF rows = <<>> THEN totals
    ELSE LET row == Head(rows)
             current == TotalsGet(totals, row.currency)
         IN  from(Tail(rows),
                  TotalsSet(totals, row.currency,
                            ParseFixed2(ToFixed2(AddDoubles(current, Double(row.amount))))))

\* The normalized rows a summary may be made of; amount is the decimal literal in
\* thousandths.
NormalizedRow(account, amount, currency) ==
    [account |-> account, amount |-> amount, currency |-> currency]
NormalizedRows ==
    { NormalizedRow(<<"A">>, 1335, <<"E","U","R">>),
      NormalizedRow(<<"B">>, 2665, <<"E","U","R">>),
      NormalizedRow(<<"C">>, 7000, <<"U","S","D">>),
      NormalizedRow(<<"D">>, 1005, <<"U","S","D">>),
      NormalizedRow(<<"E">>, 4, <<"E","U","R">>) }

SummaryInputs == UNION {[1..n -> NormalizedRows] : n \in 0..MaxSummaryRows}

NoSummary == <<[currency |-> <<>>, total |-> Double(0)]>>

\* The caller makes the summary of the rows it has.
CallCurrencySummaryFrom ==
    /\ summaryTotals = NoSummary
    /\ summaryTotals' = from(summaryRows, <<>>)
    /\ UNCHANGED <<ledgerRows, ledgerResult, summaryRows>>
    /\ UNCHANGED <<detailVars, listVars, authVars, clientVars, eventVars, approvalVars,
                   actionVars, uploadVars>>

NextSummary == CallCurrencySummaryFrom

InitLedger ==
    /\ ledgerRows = <<>>
    /\ ledgerResult = NotCalled
    /\ summaryRows = <<>>
    /\ summaryTotals = NoSummary

NextLedger == CallNormalizeLedger

(***************************************************************************)
(* Specifications: one per view, over the same initial states              *)
(***************************************************************************)
InitViews ==
    /\ InitDetail /\ InitList /\ InitAuth /\ InitEvents /\ InitApprovals /\ InitActions
    /\ InitUpload

InitAll == InitViews /\ InitLedger

InitDetailOnly == InitAll /\ storage = Null

InitListOnly == InitAll /\ id = NoId /\ storage = Null

InitAuthOnly == InitAll /\ id = NoId

SpecDetail == InitDetailOnly /\ [][NextDetail]_vars

SpecList == InitListOnly /\ [][NextList]_vars

SpecAuth == InitAuthOnly /\ [][NextAuth]_vars

SpecClient == InitAuthOnly /\ [][NextClient]_vars

SpecEvents == InitListOnly /\ [][NextEvents]_vars

SpecApprovals == InitListOnly /\ [][NextApprovals]_vars

SpecUserActions == InitListOnly /\ [][NextUserActions]_vars

SpecUpload == InitListOnly /\ [][NextUpload]_vars

\* normalizeLedger is a pure function: the initial states are its inputs.
InitLedgerInputs ==
    /\ InitViews /\ id = NoId /\ storage = Null
    /\ ledgerRows \in LedgerInputs
    /\ ledgerResult = NotCalled
    /\ summaryRows = <<>>
    /\ summaryTotals = NoSummary

\* CurrencySummary.from is a pure function as well.
InitSummaryInputs ==
    /\ InitViews /\ id = NoId /\ storage = Null
    /\ ledgerRows = <<>>
    /\ ledgerResult = NotCalled
    /\ summaryRows \in SummaryInputs
    /\ summaryTotals = NoSummary

SpecSummary == InitSummaryInputs /\ [][NextSummary]_vars

SpecLedger == InitLedgerInputs /\ [][NextLedger]_vars

(***************************************************************************)
(* Claims about the Job Status Poller (checked under SpecDetail)           *)
(***************************************************************************)

\* C1: once a load() resolved with a terminal status (ok, failed, approved, rejected,
\* in any casing), isPolling is false and no interval is armed, and until the user
\* resumes (or the view is bound to another id) no step issues a fetch.
C1_AutoStop ==
    /\ [](autoStopped => (~isPolling /\ interval = NoTimer))
    /\ [][(autoStopped /\ autoStopped') => (fetchCount' = fetchCount /\ requests' \subseteq requests)]_vars

\* C1 witness: a mixed-case terminal payload stopped a poller that could still fetch.
C1_Witness ==
    /\ autoStopped /\ mounted
    /\ lastOp = [op |-> "resolved", raw |-> <<"R","e","j","e","c","t","e","d">>]
    /\ fetchCount = 2 /\ fetchCount < MaxFetches

\* C3 (as claimed): after a load() failed although a job had been loaded for this id,
\* loadState is still "success" (the loaded job is still what is rendered).
C3_BackgroundFailureKeepsView ==
    (lastOp.op = "rejected" /\ job # NoJob /\ job.id = id) => loadState = "success"

\* C4 (as claimed): at most one fetchJobById request for the bound id is in flight.
C4_AtMostOneInFlight ==
    mounted => Cardinality({r \in requests : r.id = id}) <= 1

\* C5: togglePolling while polling sets isPolling false, clears the interval and issues
\* no fetch; togglePolling while stopped sets isPolling true and issues exactly one
\* fetch for the bound id in the same step.
C5_ToggleStopResume ==
    [][lastOp'.op = "togglePolling" =>
          IF isPolling
             THEN /\ ~isPolling'
                  /\ interval' = NoTimer
                  /\ fetchCount' = fetchCount
                  /\ requests' = requests
             ELSE /\ isPolling'
                  /\ fetchCount' = fetchCount + 1
                  /\ requests' = requests \cup {[n |-> fetchCount', id |-> id]}]_vars

\* C5 witness: polling was resumed on a non-terminal job, one request is in flight.
C5_Witness ==
    /\ lastOp.op = "togglePolling"
    /\ isPolling
    /\ ~IsTerminalStatus(job.status)
    /\ Cardinality(requests) = 1
    /\ interval = id

\* C6: without user interaction, failures or overlapping ticks, once the terminal
\* response arrived exactly k+1 fetches were issued for k non-terminal responses,
\* nothing is in flight and nothing is armed.
C6_ExactlyKPlusOneFetches ==
    (undisturbed /\ autoStopped) =>
        /\ fetchCount = nonTerminalSeen + 1
        /\ requests = {}
        /\ interval = NoTimer

\* C6 witness: queued, running, ok gave exactly three fetches.
C6_Witness ==
    /\ undisturbed /\ autoStopped
    /\ nonTerminalSeen = 2
    /\ fetchCount = 3
    /\ job.status = <<"o","k">>

\* C7: a view mounted without an id is in the error state with no fetch issued; a view
\* whose initial fetch failed (no job was ever stored) is in the error state with that
\* single fetch issued, nothing in flight and no interval armed; an id that does not
\* exist always ends there.
C7_NoUsableJob ==
    /\ (mounted /\ id = NoId) =>
          (loadState = "error" /\ fetchCount = 0 /\ requests = {} /\ interval = NoTimer)
    /\ (idChanges = 0 /\ id # NoId /\ job = NoJob /\ loadState = "error") =>
          (fetchCount = 1 /\ requests = {} /\ interval = NoTimer)
    /\ (idChanges = 0 /\ id \in MissingIds /\ lastOp # Op("init")) =>
          (job = NoJob /\ interval = NoTimer /\ fetchCount = 1
           /\ ((mounted /\ requests = {}) => loadState = "error"))

\* C7 witness: the fetch for an unknown id failed.
C7_Witness ==
    /\ id \in MissingIds /\ idChanges = 0 /\ mounted
    /\ lastOp.op = "rejected"
    /\ loadState = "error"

(***************************************************************************)
(* Claims about the Job List Refresher (checked under SpecList)            *)
(***************************************************************************)

\* C2: the step in which a background refresh (refresh(false)) fails changes nothing
\* of the list view but the poll-error message: jobs, loadState, loadError and the
\* last-updated stamp are what they were.
C2_BackgroundFailureFrame ==
    [][(listLastOp'.op = "rejected" /\ ~listLastOp'.withSpinner) =>
          /\ jobs' = jobs
          /\ listLoadState' = listLoadState
          /\ loadError' = loadError
          /\ lastUpdated' = lastUpdated
          /\ pollingError' = StringsJobsPollError]_vars

\* C2 witness: a background refresh failed over a rendered, non-empty list.
C2_Witness ==
    /\ listLastOp = ListOp("rejected", FALSE, 0)
    /\ listLoadState = "success"
    /\ Len(jobs) > 0
    /\ pollingError = StringsJobsPollError

\* C8: right after a refresh(true) fetch failed, loadState is "error" and the
\* user-facing load-error message is stored.
C8_SpinnerFailureShowsError ==
    listLastOp = ListOp("rejected", TRUE, 0) =>
        (listLoadState = "error" /\ loadError = StringsJobsError)

\* C8 witness: an explicit retry failed after a list had been loaded.
C8_Witness ==
    /\ listLastOp = ListOp("rejected", TRUE, 0)
    /\ listLoadState = "error"
    /\ lastUpdated > 0

\* C9: right after a list fetch succeeded, loadState is "empty" if the returned list
\* has no job and "success" otherwise.
C9_SuccessSetsStateByLength ==
    listLastOp.op = "resolved" =>
        listLoadState = (IF listLastOp.len = 0 THEN "empty" ELSE "success")

\* C9 witness: a list of exactly one job was applied.
C9_Witness ==
    /\ listLastOp.op = "resolved"
    /\ listLastOp.len = 1
    /\ listLoadState = "success"

\* C11 (as claimed): once a scheduled fetch of the list view failed as unauthorized
\* (401), no later step of that polling session is an interval tick issuing a fetch.
C11_UnauthorizedStopsPolling ==
    [][listUnauthorized => listLastOp'.op # "tick"]_vars

(***************************************************************************)
(* Claims about the session (checked under SpecAuth)                       *)
(***************************************************************************)

\* C10 (as claimed): right after a request made through the API client received a 401
\* while a handler is subscribed, the handler has run: the token is cleared in memory
\* and in storage and the App shows the login view with the session-expired message.
C10_UnauthorizedForcesRelogin ==
    (authLastOp.op = "response" /\ authLastOp.kind # "login" /\ authLastOp.status = 401
     /\ AppHandler \in Handlers(unauthorizedHandlers)) =>
        /\ token = Null
        /\ authToken = Null
        /\ storage = Null
        /\ authError = StringsAuthSessionExpired

(***************************************************************************)
(* Claims about the API client (checked under SpecClient)                  *)
(***************************************************************************)

\* C12: whatever the order of initializeToken, login, logout and setAuthToken calls,
\* a request issued through apiRequest or downloadFile carries Authorization: Bearer
\* <current token> when a token is set and no Authorization header when none is set
\* (in particular after logout); the login request never carries the header.
C12_BearerHeader ==
    [][\A r \in apiRequests' \ apiRequests :
          r.authorization = IF r.kind # "login" /\ currentToken # Null
                               THEN Bearer(currentToken)
                               ELSE NoHeader]_vars

\* C12 witness: a request went out with the token, a login went out without it while
\* a token was set, and the request just issued after the logout carries no header.
C12_Witness ==
    /\ authLastOp = AuthOp("request", "api", 0)
    /\ currentToken = Null
    /\ \E r1, r2, r3 \in apiRequests :
          /\ r1.kind = "download" /\ r1.authorization = Bearer("jwt-2") /\ r1.n = 1
          /\ r2.kind = "login" /\ r2.authorization = NoHeader /\ r2.n = 2
          /\ r3.kind = "api" /\ r3.authorization = NoHeader /\ r3.n = 3

(***************************************************************************)
(* Claims about authEvents (checked under SpecEvents)                      *)
(***************************************************************************)

\* C16: a notifyUnauthorized call invokes each handler that is subscribed exactly
\* once and no other handler: a handler whose unsubscribe function has been called
\* (and that has not been subscribed again) is not invoked.
C16_NotifyEachSubscribedOnce ==
    [][eventLastOp'.op = "notify" =>
          \A h \in EventHandlers :
              calls'[h] = calls[h] + (IF h \in subscribed THEN 1 ELSE 0)]_vars

\* C16 witness: the second notification skipped the unsubscribed handler and reached
\* the one still subscribed.
C16_Witness ==
    /\ eventLastOp.op = "notify"
    /\ notifyCount = 2
    /\ calls["handler"] = 1 /\ "handler" \in unsubscribers /\ "handler" \notin subscribed
    /\ calls["succeeding"] = 2

\* C17: a notifyUnauthorized call logs one error per subscribed handler that throws,
\* still invokes every subscribed handler, those after the throwing one included,
\* and returns normally.
C17_ThrowingHandlerIsLogged ==
    [][eventLastOp'.op = "notify" =>
          /\ notifyOutcome' = "returned"
          /\ errorLog' = errorLog + Cardinality({h \in subscribed : Throws(h)})
          /\ \A h \in subscribed : calls'[h] = calls[h] + 1]_vars

\* C17 witness: the throwing handler was subscribed first; it and the handler after
\* it were invoked, and the error was logged.
C17_Witness ==
    /\ eventLastOp.op = "notify"
    /\ unauthorizedHandlers = <<"failing", "succeeding">>
    /\ calls["failing"] = 1 /\ calls["succeeding"] = 1
    /\ errorLog = 1
    /\ notifyOutcome = "returned"

(***************************************************************************)
(* Claims about the approvals view (checked under SpecApprovals)           *)
(***************************************************************************)

\* C13 (as claimed): the step in which an approve or reject call settles, whether it
\* succeeded or failed, issues a full reload (approvals and jobs).
C13_ReloadAfterMutation ==
    [][approvalsLastOp'.op = "mutation" =>
          \E r \in approvalRequests' \ approvalRequests : r.kind = "load"]_vars

ActionErrors ==
    [handleExport |-> exportError, handleExportInvoices |-> exportInvoicesError,
     handleExportJournal |-> exportJournalError, handleSync |-> syncError,
     handleExecutePayments |-> paymentsError]
ActionBusy ==
    [handleExport |-> isExporting, handleExportInvoices |-> isExportingInvoices,
     handleExportJournal |-> isExportingJournal, handleSync |-> syncingTarget # Null,
     handleExecutePayments |-> paymentsLoading]
ActionMessages ==
    [handleExport |-> Null, handleExportInvoices |-> Null, handleExportJournal |-> Null,
     handleSync |-> syncMessage, handleExecutePayments |-> paymentsMessage]

\* The steps of a handler that ends in its catch block: the click that starts any
\* handler, and the step in which its call fails.
JobsActionStarts == actionRequests' # actionRequests /\ actionLastOp'.op = "click"
JobsActionFails == actionRequests' # actionRequests /\ ~actionLastOp'.ok
ApprovalActionStarts ==
    approvalRequests' # approvalRequests /\ approvalsLastOp'.op = "click"
ApprovalActionFails ==
    /\ approvalRequests' # approvalRequests
    /\ approvalsLastOp'.op = "mutation" /\ ~approvalsLastOp'.ok

\* What no step of any handler changes: the list state of the Jobs page and what
\* the other handlers own; the list, the jobs, the tab, the notes and the loading
\* flag of the Approvals page.
JobsActionFrame ==
    /\ UNCHANGED <<jobs, listLoadState, loadError, pollingError, lastUpdated>>
    /\ \A h \in (DOMAIN ActionErrors) \ {actionLastOp'.handler} :
          /\ ActionErrors'[h] = ActionErrors[h]
          /\ ActionBusy'[h] = ActionBusy[h]
          /\ ActionMessages'[h] = ActionMessages[h]
ApprovalActionFrame ==
    /\ UNCHANGED <<approvals, approvalJobs, statusFilter, notes, isLoading>>
    /\ \A j \in ApprovalIds \ {approvalsLastOp'.jobId} : isSubmitting'[j] = isSubmitting[j]

\* C15 (as claimed): the steps of a failed user action change nothing but its error
\* message and its busy flag: the success messages too are what they were.
C15_FailedActionChangesErrorAndBusyOnly ==
    /\ [][(JobsActionStarts \/ JobsActionFails) =>
            (JobsActionFrame /\ ActionMessages' = ActionMessages)]_vars
    /\ [][(ApprovalActionStarts \/ ApprovalActionFails) =>
            (ApprovalActionFrame /\ successMessage' = successMessage)]_vars

\* C15 (amended): a failed user action (approve, reject, export, sync, payments)
\* ends with its error message set and its busy flag false; its steps change nothing
\* else but its own success message, which is cleared when the action starts: the
\* job list, loadState, the approvals list, the selected tab and the notes are the
\* same as before the action.
C15_FailedActionFrame ==
    /\ [][JobsActionStarts =>
            /\ JobsActionFrame
            /\ ActionMessages'[actionLastOp'.handler] = Null
            /\ ActionErrors'[actionLastOp'.handler] = Null
            /\ ActionBusy'[actionLastOp'.handler]]_vars
    /\ [][JobsActionFails =>
            /\ JobsActionFrame
            /\ ActionMessages' = ActionMessages
            /\ ActionErrors'[actionLastOp'.handler] # Null
            /\ ~ActionBusy'[actionLastOp'.handler]]_vars
    /\ [][ApprovalActionStarts =>
            /\ ApprovalActionFrame
            /\ successMessage' = Null
            /\ error' = error
            /\ isSubmitting'[approvalsLastOp'.jobId]]_vars
    /\ [][ApprovalActionFails =>
            /\ ApprovalActionFrame
            /\ successMessage' = successMessage
            /\ error' # Null
            /\ ~isSubmitting'[approvalsLastOp'.jobId]]_vars

\* C15 witness: a sync failed over a loaded list with an approved job while the
\* success message of an earlier payment run is still shown.
C15_Witness ==
    /\ actionLastOp = ActionOp("settled", "handleSync", FALSE)
    /\ syncError = StringsSummaryOffline
    /\ syncingTarget = Null
    /\ paymentsMessage = StringsJobsExecutePaymentsSuccess
    /\ Len(approvedJobs) > 0

(***************************************************************************)
(* Claims about the upload view (checked under SpecUpload)                 *)
(***************************************************************************)
\* What the user picked, told by the file itself and not by the code's checks.
Oversized == {LargePdf}
OutsideAllowed == {ImageGif, Readme}
FirstIn(set) ==
    CHOOSE i \in 1..Len(files) :
        files[i] \in set /\ \A k \in 1..(i - 1) : files[k] \notin set
HasSome(set) == \E i \in 1..Len(files) : files[i] \in set
SelectionInvalid == Len(files) = 0 \/ HasSome(Oversized) \/ HasSome(OutsideAllowed)
ValidationError ==
    IF Len(files) = 0 THEN UploadError("strings.upload.noFile", NoName)
    ELSE IF HasSome(Oversized)
       THEN UploadError("strings.upload.fileTooLarge", files[FirstIn(Oversized)].name)
       ELSE UploadError("strings.upload.fileUnsupported",
                        files[FirstIn(OutsideAllowed)].name)
SubmitStep == uploadLastOp'.op \in {"submit", "tryAgain"}

\* C18: handleSubmit with no file selected, with a selected file larger than 50 MiB or
\* with a selected file whose extension is outside the allowed set issues no
\* registerJob call, leaves isUploading false and sets the corresponding error
\* message; a selection of files within the limit whose extensions are allowed in
\* any letter case gets no such message and is uploaded.
C18_ValidationBlocksUpload ==
    [][SubmitStep =>
         IF SelectionInvalid
            THEN /\ registerCount' = registerCount
                 /\ uploadRequests' = uploadRequests
                 /\ ~isUploading'
                 /\ uploadError' = ValidationError
            ELSE /\ uploadError' = NoUploadError
                 /\ isUploading'
                 /\ registerCount' = registerCount + 1]_vars

\* C18 witness: a GIF and then an oversized PDF were submitted; the size message names
\* the PDF and nothing was sent.
C18_Witness ==
    /\ uploadLastOp.op = "submit"
    /\ files = <<ImageGif, LargePdf>>
    /\ uploadError = UploadError("strings.upload.fileTooLarge", LargePdf.name)
    /\ ~isUploading /\ uploadRequests = {} /\ registerCount = 0

IsPrefixOf(log, whole) == Len(log) <= Len(whole) /\ SubSeq(whole, 1, Len(log)) = log

\* C19: the files submitted are registered in selection order and one at a time (the
\* calls made so far are the first files of the selection, at most one call is in
\* flight and every earlier call has resolved), and when the last call has resolved
\* uploadedJobIds holds the ids the calls returned, in the order of the calls, every
\* file was registered and the selection is empty.
C19_SequentialInSelectionOrder ==
    /\ Cardinality(uploadRequests) <= 1
    /\ IsPrefixOf(registerLog, submittedFiles)
    /\ \A r \in uploadRequests : r.file = submittedFiles[Len(registerLog)]
    /\ isUploading => Len(registerLog) = Len(returnedIds) + 1
    /\ isUploading <=> uploadRequests # {}
    /\ uploadLastOp.op = "uploaded" =>
          /\ registerLog = submittedFiles
          /\ Len(returnedIds) = Len(submittedFiles)
          /\ uploadedJobIds = returnedIds
          /\ files = <<>>

\* C19 witness: two files were uploaded and the store numbered the second job below
\* the first; the ids are shown in the order of the files.
C19_Witness ==
    /\ uploadLastOp.op = "uploaded"
    /\ submittedFiles = <<SecondJpg, FirstPdf>>
    /\ registerLog = <<SecondJpg, FirstPdf>>
    /\ uploadedJobIds = <<3002, 3001>>
    /\ files = <<>>

(***************************************************************************)
(* Claims about the ledger (checked under SpecLedger)                      *)
(***************************************************************************)
\* What each raw row says, read off the row by hand: its account name without the
\* blanks around it, its amount in hundredths, its currency in capitals.
Canonical(account, amount, currency) ==
    [account |-> account, amount |-> amount, currency |-> currency]
Meaning(row) ==
    CASE row = RowAcctA -> Canonical(<<"A">>, 125, <<"U","S","D">>)
      [] row = RowAccountA -> Canonical(<<"A">>, 200, <<"U","S","D">>)
      [] row = RowAccountB -> Canonical(<<"B">>, 300, <<"U","S","D">>)
      [] row = RowPaddedA -> Canonical(<<"A">>, 700, <<"E","U","R">>)
      [] row = RowAccountC -> Canonical(<<"C">>, 250, <<"U","S","D">>)
\* The rows without an account name or without a numeric amount.
Unusable == {RowNoAccount, RowBlankAccount, RowNoAmount, RowNotNumeric}
Occurrences(account) ==
    {i \in 1..Len(ledgerRows) : Meaning(ledgerRows[i]).account = account}
FirstOccurrence(account) ==
    CHOOSE i \in Occurrences(account) : \A k \in Occurrences(account) : i <= k
LastOccurrence(account) ==
    CHOOSE i \in Occurrences(account) : \A k \in Occurrences(account) : k <= i

\* C20: when every row has an account (under either alias) and a numeric amount (under
\* either alias), normalizeLedger returns exactly one canonical row per distinct
\* trimmed account name, in order of first occurrence, holding the amount and the
\* currency of the last input row for that account, the currency in capitals and USD
\* when the row has none; with a row that lacks one of the two it throws.
C20_OneRowPerAccount ==
    ledgerResult # NotCalled =>
        IF \E i \in 1..Len(ledgerRows) : ledgerRows[i] \in Unusable
           THEN ledgerResult.threw # Null
           ELSE LET out == ledgerResult.rows
                    names == {Meaning(ledgerRows[i]).account : i \in 1..Len(ledgerRows)}
                IN  /\ ledgerResult.threw = Null
                    /\ {out[k].account : k \in 1..Len(out)} = names
                    /\ Len(out) = Cardinality(names)
                    /\ \A k1, k2 \in 1..Len(out) :
                          k1 < k2 => FirstOccurrence(out[k1].account)
                                       < FirstOccurrence(out[k2].account)
                    /\ \A k \in 1..Len(out) :
                          out[k] = Meaning(ledgerRows[LastOccurrence(out[k].account)])

\* C20 witness: account A under the alias acct, then B, then A again with blanks
\* around the name, a string amount and a lower-case currency: A comes first and
\* holds what its last row says, B has the default currency.
C20_Witness ==
    /\ ledgerRows = <<RowAcctA, RowAccountB, RowPaddedA>>
    /\ ledgerResult = [threw |-> Null,
                       rows |-> <<Canonical(<<"A">>, 700, <<"E","U","R">>),
                                  Canonical(<<"B">>, 300, <<"U","S","D">>)>>]

(***************************************************************************)
(* Claims about the currency summary (checked under SpecSummary)           *)
(***************************************************************************)
RECURSIVE SumOfAmounts(_, _)
SumOfAmounts(rows, currency) ==
    IF rows = <<>> THEN 0
    ELSE (IF Head(rows).currency = currency THEN Head(rows).amount ELSE 0)
           + SumOfAmounts(Tail(rows), currency)
CurrenciesOf(rows) == {rows[i].currency : i \in 1..Len(rows)}
Distance(a, b) == IF a < b THEN b - a ELSE a - b

\* C21 (as claimed): the summary has one total per currency of the rows, and each is
\* the sum of the amounts of the rows in that currency rounded to two decimals (a
\* multiple of a hundredth at most half a hundredth away from the sum), whatever the
\* rows in the other currencies are.
C21_TotalsAreRoundedSums ==
    summaryTotals # NoSummary =>
        /\ {summaryTotals[i].currency : i \in 1..Len(summaryTotals)}
              = CurrenciesOf(summaryRows)
        /\ Len(summaryTotals) = Cardinality(CurrenciesOf(summaryRows))
        /\ \A i \in 1..Len(summaryTotals) :
              LET total == summaryTotals[i].total
              IN  /\ total = Double(10 * (total.n \div 10))
                  /\ Distance(total.n,
                              SumOfAmounts(summaryRows, summaryTotals[i].currency)) <= 5

(***************************************************************************)
(* Further claims about the Job Status Poller (checked under SpecDetail)   *)
(***************************************************************************)
\* C22: an interval is armed only while the view is mounted, isPolling is true and a
\* job with a non-terminal status is stored, and it is the interval of the bound id;
\* every tick that fires issues its request for the id bound at that moment, in a
\* mounted view, and a change of the id or a teardown leaves no other timer.
C22_TimerOnlyForBoundId ==
    /\ [](interval # NoTimer =>
            /\ mounted /\ isPolling
            /\ job # NoJob /\ ~IsTerminalStatus(job.status)
            /\ interval = id)
    /\ [][lastOp'.op = "tick" /\ fetchCount' # fetchCount =>
            /\ mounted
            /\ \A r \in requests' \ requests : r.id = id]_vars
    /\ [][lastOp'.op = "unmount" => interval' = NoTimer]_vars
    /\ [][lastOp'.op = "changeId" => interval' \in {NoTimer, id'}]_vars

\* C22 witness: the id changed while the poller was running; the timer now armed is
\* the one of the new id although the job shown is still the one of the old id.
C22_Witness ==
    /\ lastOp.op = "changeId"
    /\ interval = id /\ job # NoJob /\ job.id # id

\* C23 (as claimed): a response to a request issued for another id than the one
\* bound now changes neither job nor loadState nor isPolling.
C23_StaleResponseIgnored ==
    [][\A r \in requests \ requests' :
          r.id # id => (job' = job /\ loadState' = loadState /\ isPolling' = isPolling)]_vars

\* C26: whenever the stored job has a terminal status isPolling is false, and in such
\* a state the toggle is disabled and no step sets isPolling to true.
C26_TerminalJobNotPolling ==
    /\ []((job # NoJob /\ IsTerminalStatus(job.status)) => (~isPolling /\ ~ToggleEnabled))
    /\ [][(job # NoJob /\ IsTerminalStatus(job.status)) => ~isPolling']_vars

\* C26 witness: a terminal response was applied while an earlier request is still in
\* flight, after the user had stopped and resumed the poller.
C26_Witness ==
    /\ lastOp.op = "resolved" /\ IsTerminalStatus(lastOp.raw)
    /\ job # NoJob /\ IsTerminalStatus(job.status)
    /\ ~isPolling /\ requests # {} /\ ~undisturbed

\* C27: a load that fails after a job was loaded leaves job, isPolling and the armed
\* interval as they were and sets loadState to error, so in the error presentation
\* the interval of a polling session stays armed; every load that succeeds sets
\* loadState to success.
C27_FailedLoadKeepsPolling ==
    /\ [][lastOp'.op = "rejected" =>
            /\ job' = job /\ isPolling' = isPolling /\ interval' = interval
            /\ loadState' = "error"]_vars
    /\ []((mounted /\ loadState = "error" /\ isPolling /\ job # NoJob
            /\ ~IsTerminalStatus(job.status)) => interval = id)
    /\ [][lastOp'.op = "resolved" => loadState' = "success"]_vars

\* C27 witness: a background load failed, the interval is still armed, and the view
\* had shown the job before.
C27_Witness ==
    /\ lastOp.op = "rejected" /\ loadState = "error"
    /\ job # NoJob /\ isPolling /\ interval = id /\ nonTerminalSeen > 0

(***************************************************************************)
(* Further claims about the Job List Refresher (checked under SpecList)    *)
(***************************************************************************)
\* C24 (as claimed): in a mounted list view at most one fetchJobs request is
\* outstanding.
C24_OneListRequestOutstanding ==
    listMounted => Cardinality(listRequests) <= 1

\* C25: a refresh(true) (mount or retry) sets loadState to loading and loadError to
\* null as it issues its fetch; the poll-error message goes from set to null only in
\* a step in which a fetch succeeds; and whenever loadState is error, loadError is set.
C25_SpinnerResetAndBanner ==
    /\ [][listLastOp'.op \in {"mount", "retry"} =>
            /\ listLoadState' = "loading" /\ loadError' = Null
            /\ listFetchCount' = listFetchCount + 1
            /\ pollingError' = pollingError]_vars
    /\ [][(pollingError # Null /\ pollingError' = Null) => listLastOp'.op = "resolved"]_vars
    /\ [][listLastOp'.op = "resolved" => pollingError' = Null]_vars
    /\ [](listLoadState = "error" => loadError # Null)

\* C25 witness: the user retried from the poll-error banner over an error state: the
\* spinner is back, the load error is gone and the banner message is still there.
C25_Witness ==
    /\ listLastOp.op = "retry"
    /\ listLoadState = "loading" /\ loadError = Null
    /\ pollingError = StringsJobsPollError

\* C28: the step in which a background refresh (refresh(false)) succeeds sets
\* loadState to empty or success by the length of the list, whatever it was (error,
\* or loading with a refresh(true) still in flight), and leaves loadError as it was.
C28_BackgroundSuccessSetsState ==
    [][(listLastOp'.op = "resolved" /\ ~listLastOp'.withSpinner) =>
          /\ listLoadState' = (IF Len(jobs') = 0 THEN "empty" ELSE "success")
          /\ loadError' = loadError]_vars

\* C28 witness: the answer to a tick ended the loading state while the refresh(true)
\* of the mount is still in flight.
C28_Witness ==
    /\ listLastOp.op = "resolved" /\ ~listLastOp.withSpinner
    /\ listLoadState = "success"
    /\ \E r \in listRequests : r.withSpinner

(***************************************************************************)
(* Further claims about the approvals view (checked under SpecApprovals)   *)
(***************************************************************************)
\* The calls in flight that belong to a running handleApprove / handleReject of the
\* job: its mutation, or the reload that follows it.
HandlerCalls(jobId) ==
    {r \in approvalRequests : r.jobId = jobId /\ r.action \in {"approve", "reject"}}

\* C29: for each job at most one approve / reject handler is running, so at most one
\* mutation of the job is in flight; isSubmitting[jobId] is true exactly while that
\* handler has a call in flight, and it goes back to false only in the step in which
\* the mutation fails or the reload after it settles, with or without success.
C29_OneMutationPerJob ==
    /\ [](\A jobId \in ApprovalIds :
            /\ Cardinality(HandlerCalls(jobId)) <= 1
            /\ isSubmitting[jobId] <=> HandlerCalls(jobId) # {})
    /\ [][\A jobId \in ApprovalIds :
            (isSubmitting[jobId] /\ ~isSubmitting'[jobId]) =>
                /\ approvalsLastOp'.jobId = jobId
                /\ \/ approvalsLastOp'.op = "mutation" /\ ~approvalsLastOp'.ok
                   \/ approvalsLastOp'.op = "loaded"
                /\ HandlerCalls(jobId)' = {}]_vars
    /\ [][\A jobId \in ApprovalIds :
            (approvalsLastOp'.op = "click" /\ approvalsLastOp'.jobId = jobId) =>
                (~isSubmitting[jobId] /\ isSubmitting'[jobId])]_vars

\* C29 witness: the reload after a successful approve failed and released the job
\* while a handler of the other job is still running.
C29_Witness ==
    /\ approvalsLastOp = ApprovalsOp("loaded", "approve", "JOB-9", FALSE)
    /\ ~isSubmitting["JOB-9"]
    /\ isSubmitting["JOB-8"]

(***************************************************************************)
(* Further claims about the upload view (checked under SpecUpload)         *)
(***************************************************************************)
LastOf(seq, n) == SubSeq(seq, Len(seq) - n + 1, Len(seq))

\* C30: when registerJob fails for file k of the files submitted, no further call is
\* made, uploadedJobIds holds the ids the calls for files 1..k-1 returned, isUploading
\* is false again, an error is shown and the selection is still the whole batch; a
\* retry from there starts again at file 1 of the same batch, and the jobs a run has
\* created so far are new jobs for its first files, so the retry creates a second job
\* for each of the files 1..k-1 it gets past.
C30_FailedBatchKeepsSelection ==
    /\ [][uploadLastOp'.op = "rejected" =>
             /\ uploadRequests' = {}
             /\ registerCount' = registerCount
             /\ Len(returnedIds) = Len(registerLog) - 1
             /\ uploadedJobIds' = returnedIds
             /\ ~isUploading'
             /\ uploadError' # NoUploadError
             /\ files' = submittedFiles
             /\ storeJobFiles' = storeJobFiles]_vars
    /\ [][(uploadLastOp.op = "rejected" /\ uploadLastOp'.op = "tryAgain") =>
             /\ submittedFiles' = submittedFiles
             /\ isUploading'
             /\ registerLog' = <<submittedFiles[1]>>
             /\ \E r \in uploadRequests' : r.file = registerLog[1]]_vars
    /\ [](/\ Len(returnedIds) <= Len(storeJobFiles)
          /\ Len(returnedIds) <= Len(submittedFiles)
          /\ LastOf(storeJobFiles, Len(returnedIds))
                = SubSeq(submittedFiles, 1, Len(returnedIds)))

\* C30 witness: the second of two files failed, and the retry has registered the first
\* file again: the store holds two jobs of that file.
C30_Witness ==
    /\ uploadLastOp.op = "registered"
    /\ submittedFiles = <<FirstPdf, SecondJpg>>
    /\ storeJobFiles = <<FirstPdf, FirstPdf>>
    /\ registerCount = 4
    /\ returnedIds = <<3002>>
====
